---- MODULE Spec2Model ----
(***************************************************************************)
(* Colour-symmetry machinery of pyhanabi: the group tables, the            *)
(* permutation-operator builders of EquivariantProjection,                 *)
(* EquivariantLSTMNet and EquivariantPublicLSTMNet, weight projection,     *)
(* the equivariant act, and the dueling head of forward.                   *)
(*                                                                         *)
(* Conventions of the model                                                *)
(*  - A tensor is a function over 0-based indices, as in the source.       *)
(*  - A square operator that the source makes from torch.eye by row        *)
(*    gathers (perm[a:b] = perm[idx]) has one 1 per row; it is held as     *)
(*    the function row |-> column of that 1.  Nothing is assumed about     *)
(*    its columns.                                                         *)
(*  - A concatenation of such operators is held as the 0-based list of     *)
(*    its blocks with the cat dimension and a transposed flag; Entry       *)
(*    gives the entry of the concatenated matrix at (row, column).         *)
(*  - An observation is a 0/1 vector, held as the set of its 1-indices.    *)
(*  - A real is an exact fraction <<numerator, denominator>>; floating     *)
(*    point rounding is not modelled.                                      *)
(*  - The library layers (nn.Linear, nn.ReLU, nn.LSTM) with their trained  *)
(*    weights are row-wise functions about which nothing is known: the     *)
(*    value they give is the term naming the function and its arguments,   *)
(*    and a sum of such values is the bag of its terms.                    *)
(***************************************************************************)
EXTENDS Integers, Sequences, FiniteSets, TLC

VARIABLES
    pc,               \* "new" | "ready" | "failed": position in the object's life
    module,           \* class of the object
    args,             \* constructor arguments
    group_type,       \* self.group_type
    symmetries,       \* self.symmetries
    inv_symmetries,   \* self.inv_symmetries
    num_symmetries,   \* self.num_symmetries
    input_perms,      \* self.input_perms / self.priv_input_perms
    publ_input_perms, \* self.publ_input_perms
    output_perms,     \* self.output_perms
    hidden_cell_repeat, \* self.hidden_cell_repeat
    last              \* the last call of an exposed operation and what it returned

vars == <<pc, module, args, group_type, symmetries, inv_symmetries, num_symmetries,
          input_perms, publ_input_perms, output_perms, hidden_cell_repeat, last>>

tables == <<symmetries, inv_symmetries, num_symmetries, input_perms,
            publ_input_perms, output_perms, hidden_cell_repeat>>

(***************************************************************************)
(* Bounds of the model.                                                    *)
(***************************************************************************)
MaxBatch == 2
MaxLayers == 2
MaxHidDim == 2
MaxActions == 2

(***************************************************************************)
(* Tensors.                                                                *)
(***************************************************************************)
Range0(n) == 0 .. (n - 1)

\* torch.tensor(list of lists): a 2-d tensor from nested Python lists
tensor2(list) ==
    [k \in Range0(Len(list)) |-> [i \in Range0(Len(list[k + 1])) |-> list[k + 1][i + 1]]]

size0(t) == Cardinality(DOMAIN t)

zeros(n) == [j \in Range0(n) |-> 0]

\* torch.eye(n) as row |-> column of the 1
eye(n) == [j \in Range0(n) |-> j]

\* t[lo : lo + len(vals)] = vals, on a 1-d tensor
SliceAssign(t, lo, vals) ==
    LET hi == lo + size0(vals)
    IN  [j \in DOMAIN t |-> IF lo <= j /\ j < hi THEN vals[j - lo] ELSE t[j]]

\* what a failed tensor operation leaves: no tensor
Raised == <<>>

\* Python/torch index: a negative index counts from the end
WrapIndex(n, i) == IF i < 0 THEN i + n ELSE i

\* perm[lo:hi] = perm[idx]: the rows idx of perm are gathered (a copy) and
\* written over rows lo..hi-1.  An index outside the tensor raises IndexError,
\* a slice that does not hold len(idx) rows raises a shape error.
SetRows(perm, lo, hi, idx) ==
    LET n == size0(perm)
    IN  IF perm = Raised THEN Raised
        ELSE IF \E t \in DOMAIN idx : WrapIndex(n, idx[t]) \notin DOMAIN perm
             THEN Raised
        ELSE IF hi > n \/ hi - lo # size0(idx) THEN Raised
        ELSE [j \in lo .. (hi - 1) |-> perm[WrapIndex(n, idx[j - lo])]] @@ perm

\* the function f over S made explicit: @@ evaluates every entry once
Materialize(f, S) == [x \in S |-> f[x]] @@ <<>>

(***************************************************************************)
(* Group tables.                                                           *)
(***************************************************************************)
colours == <<0, 1, 2, 3, 4>>

\* itertools.permutations(pool): all orderings of pool, in the order of the
\* positions chosen (lexicographic for a sorted pool)
RECURSIVE permutations(_)
permutations(pool) ==
    IF pool = <<>> THEN << <<>> >>
    ELSE LET n == Len(pool)
             without(i) == SubSeq(pool, 1, i - 1) \o SubSeq(pool, i + 1, n)
             RECURSIVE from(_)
             from(i) ==
                 IF i > n THEN <<>>
                 ELSE LET rest == permutations(without(i))
                      IN  [k \in 1 .. Len(rest) |-> <<pool[i]>> \o rest[k]] \o from(i + 1)
         IN  from(1)

AllPermutations == permutations(colours)

CyclicTable ==
    tensor2(<< <<0,1,2,3,4>>, <<4,0,1,2,3>>, <<3,4,0,1,2>>, <<2,3,4,0,1>>, <<1,2,3,4,0>> >>)

\* the dihedral table with the last two entries of its first reflection
\* exchanged
DihedralTableMistyped ==
    tensor2(<< <<0,1,2,3,4>>,
               <<1,2,3,4,0>>,
               <<2,3,4,0,1>>,
               <<3,4,0,1,2>>,
               <<4,0,1,2,3>>,
               <<0,4,3,1,2>>,
               <<4,3,2,1,0>>,
               <<3,2,1,0,4>>,
               <<2,1,0,4,3>>,
               <<1,0,4,3,2>> >>)

DihedralTable ==
    tensor2(<< <<0,1,2,3,4>>,
               <<1,2,3,4,0>>,
               <<2,3,4,0,1>>,
               <<3,4,0,1,2>>,
               <<4,0,1,2,3>>,
               <<0,4,3,2,1>>,
               <<4,3,2,1,0>>,
               <<3,2,1,0,4>>,
               <<2,1,0,4,3>>,
               <<1,0,4,3,2>> >>)

SymmetricTable == tensor2(AllPermutations)

\* the if / elif / else chain on self.group_type
GroupTable(gt) ==
    IF gt = "cyclic" THEN CyclicTable
    ELSE IF gt = "dihedral" THEN DihedralTable
    ELSE SymmetricTable

\* argsort left out: the table itself where its inverses are wanted
argsort_omitted(t) == t

\* torch.argsort along the last dimension: position j holds the index of the
\* j-th smallest entry
argsort(t) ==
    [k \in DOMAIN t |->
        [j \in DOMAIN t[k] |->
            CHOOSE i \in DOMAIN t[k] :
                Cardinality({m \in DOMAIN t[k] :
                    t[k][m] < t[k][i] \/ (t[k][m] = t[k][i] /\ m < i)}) = j]]

\* t[1:]
Tail0(t) == [k \in Range0(size0(t) - 1) |-> t[k + 1]]

\* the table cut short after its first two entries
ProjSymmetriesCut == [k \in Range0(2) |-> SymmetricTable[k + 1]]

\* EquivariantProjection: list(permutations(colours))[1:]
ProjSymmetries == Tail0(SymmetricTable)

(***************************************************************************)
(* Permutation-operator builder: the index remaps shared by the three      *)
(* constructors.                                                           *)
(***************************************************************************)
\* for i,idx in enumerate(symm): card_perm[5*idx:5*(idx+1)] = 5*i + [0,1,2,3,4]
RECURSIVE CardPermLoop(_, _, _)
CardPermLoop(symm, i, cp) ==
    IF i = size0(symm) THEN cp
    ELSE CardPermLoop(symm, i + 1,
                      SliceAssign(cp, 5 * symm[i], [t \in Range0(5) |-> 5 * i + t]))

card_perm(symm) == CardPermLoop(symm, 0, zeros(25))

\* for i in range(5): hand_perm[25*i:25*(i+1)] = card_perm + 25*i
RECURSIVE HandPermLoop(_, _, _)
HandPermLoop(cp, i, hp) ==
    IF i = 5 THEN hp
    ELSE HandPermLoop(cp, i + 1,
                      SliceAssign(hp, 25 * i, [t \in Range0(25) |-> cp[t] + 25 * i]))

\* the hand remap without the offset 25*i of card i
hand_perm_unshifted(cp) == [j \in Range0(125) |-> cp[j % 25]]

hand_perm(cp) == HandPermLoop(cp, 0, zeros(125))

\* for i,idx in enumerate(symm): discards_perm[10*idx:10*(idx+1)] = 10*i + [203..212]
RECURSIVE DiscardsPermLoop(_, _, _)
DiscardsPermLoop(symm, i, dp) ==
    IF i = size0(symm) THEN dp
    ELSE DiscardsPermLoop(symm, i + 1,
                          SliceAssign(dp, 10 * symm[i],
                                      [t \in Range0(10) |-> 10 * i + 203 + t]))

discards_perm(symm) == DiscardsPermLoop(symm, 0, zeros(50))

\* tensor + scalar, tensor + tensor
Plus(t, k) == [j \in DOMAIN t |-> t[j] + k]
PlusT(t, u) == [j \in DOMAIN t |-> t[j] + u[j]]
Fill(n, v) == [j \in Range0(n) |-> v]

(***************************************************************************)
(* EquivariantProjection.__init__: one pass of `for symm in                *)
(* self.symmetries` building the input operator.                           *)
(***************************************************************************)
RECURSIVE ProjV0Loop(_, _, _, _)
ProjV0Loop(perm, cp, symm, i) ==
    IF i = 10 THEN perm
    ELSE LET a == SetRows(perm, 308 + 35 * i, 333 + 35 * i, Plus(cp, 308 + 35 * i))
             directly_revealed_colour_perm == PlusT(Fill(5, 333 + 35 * i), symm)
             b == SetRows(a, 333 + 35 * i, 338 + 35 * i, directly_revealed_colour_perm)
         IN  ProjV0Loop(b, cp, symm, i + 1)

ProjInputPerm(sad, symm) ==
    LET p0 == IF sad THEN eye(713) ELSE eye(658)
        cp == card_perm(symm)
        p1 == SetRows(p0, 0, 125, hand_perm(cp))
        p2 == SetRows(p1, 167, 192, Plus(cp, 167))
        p3 == SetRows(p2, 203, 253, discards_perm(symm))
        p4 == SetRows(p3, 261, 266, PlusT(Fill(5, 261), symm))
        p5 == SetRows(p4, 281, 306, Plus(cp, 281))
        p6 == ProjV0Loop(p5, cp, symm, 0)
        p7 == SetRows(p6, 666, 671, PlusT(Fill(5, 666), symm))
        p8 == SetRows(p7, 686, 711, Plus(cp, 686))
    IN  IF sad THEN p8 ELSE p6

\* the operator of the inverse of symm in place of the one of symm
ProjOutputPermOfInverse(symm) ==
    SetRows(eye(21), 10, 15, PlusT(Fill(5, 10), argsort(0 :> symm)[0]))

\* perm = torch.eye(21); perm[10:15] = perm[[10,10,10,10,10] + symm]
ProjOutputPerm(symm) == SetRows(eye(21), 10, 15, PlusT(Fill(5, 10), symm))

(***************************************************************************)
(* EquivariantLSTMNet.__init__: one pass of `for symm in                   *)
(* self.symmetries[1:]`, and of `for symm in self.inv_symmetries[1:]`.     *)
(***************************************************************************)
RECURSIVE PrivV0Loop(_, _, _, _)
PrivV0Loop(perm, cp, symm, i) ==
    IF i = 10 THEN perm
    ELSE LET a == SetRows(perm, 308 + 35 * i, 333 + 35 * i, Plus(cp, 308 + 35 * i))
             directly_revealed_colour_perm == PlusT(Fill(5, 333 + 35 * i), symm)
             b == SetRows(a, 333 + 35 * i, 338 + 35 * i, directly_revealed_colour_perm)
         IN  PrivV0Loop(b, cp, symm, i + 1)

PrivInputPerm(priv_in_dim, symm) ==
    LET p0 == eye(priv_in_dim)
        cp == card_perm(symm)
        p1 == SetRows(p0, 0, 125, hand_perm(cp))
        p2 == SetRows(p1, 167, 192, Plus(cp, 167))
        p3 == SetRows(p2, 203, 253, discards_perm(symm))
        p4 == SetRows(p3, 261, 266, PlusT(Fill(5, 261), symm))
        p5 == SetRows(p4, 281, 306, Plus(cp, 281))
        p6 == PrivV0Loop(p5, cp, symm, 0)
        p7 == SetRows(p6, 666, 671, PlusT(Fill(5, 666), symm))
        p8 == SetRows(p7, 686, 711, Plus(cp, 686))
    IN  IF priv_in_dim = 713 THEN p8 ELSE p6

NetOutputPerm(out_dim, symm) == SetRows(eye(out_dim), 10, 15, PlusT(Fill(5, 10), symm))

(***************************************************************************)
(* EquivariantPublicLSTMNet.__init__: one pass of the input loop; it       *)
(* builds perm_priv and perm_publ side by side.                            *)
(***************************************************************************)
\* the loop with the revealed-colour rows of perm_publ left as they are
RECURSIVE PublV0LoopColoursLeft(_, _, _, _)
PublV0LoopColoursLeft(pp, cp, symm, i) ==
    IF i = 10 THEN pp
    ELSE LET a == SetRows(pp.priv, 308 + 35 * i, 333 + 35 * i, Plus(cp, 308 + 35 * i))
             c == SetRows(pp.publ, 183 + 35 * i, 208 + 35 * i, Plus(cp, 183 + 35 * i))
             directly_revealed_colour_perm == PlusT(Fill(5, 333 + 35 * i), symm)
             b == SetRows(a, 333 + 35 * i, 338 + 35 * i, directly_revealed_colour_perm)
         IN  PublV0LoopColoursLeft([priv |-> b, publ |-> c], cp, symm, i + 1)

RECURSIVE PublV0Loop(_, _, _, _)
PublV0Loop(pp, cp, symm, i) ==
    IF i = 10 THEN pp
    ELSE LET a == SetRows(pp.priv, 308 + 35 * i, 333 + 35 * i, Plus(cp, 308 + 35 * i))
             c == SetRows(pp.publ, 183 + 35 * i, 208 + 35 * i, Plus(cp, 183 + 35 * i))
             directly_revealed_colour_perm == PlusT(Fill(5, 333 + 35 * i), symm)
             b == SetRows(a, 333 + 35 * i, 338 + 35 * i, directly_revealed_colour_perm)
             d == SetRows(c, 208 + 35 * i, 213 + 35 * i,
                          Plus(directly_revealed_colour_perm, -125))
         IN  PublV0Loop([priv |-> b, publ |-> d], cp, symm, i + 1)

PublInputPerms(priv_in_dim, publ_in_dim, symm) ==
    LET cp == card_perm(symm)
        a1 == SetRows(eye(priv_in_dim), 0, 125, hand_perm(cp))
        fireworks_perm == Plus(cp, 167)
        a2 == SetRows(a1, 167, 192, fireworks_perm)
        b2 == SetRows(eye(publ_in_dim), 42, 67, Plus(fireworks_perm, -125))
        dp == discards_perm(symm)
        a3 == SetRows(a2, 203, 253, dp)
        b3 == SetRows(b2, 78, 128, Plus(dp, -125))
        which_colour_perm == PlusT(Fill(5, 261), symm)
        a4 == SetRows(a3, 261, 266, which_colour_perm)
        a5 == SetRows(a4, 281, 306, Plus(cp, 281))
        b4 == SetRows(b3, 136, 141, Plus(which_colour_perm, -125))
        b5 == SetRows(b4, 156, 181, Plus(cp, 281 - 125))
        v0 == PublV0Loop([priv |-> a5, publ |-> b5], cp, symm, 0)
        greedy_colour_perm == PlusT(Fill(5, 666), symm)
        a7 == SetRows(v0.priv, 666, 671, greedy_colour_perm)
        b7 == SetRows(v0.publ, 541, 546, greedy_colour_perm)
        a8 == SetRows(a7, 686, 711, Plus(cp, 686))
        b8 == SetRows(b7, 561, 586, Plus(cp, 686 - 125))
    IN  IF priv_in_dim = 713 THEN [priv |-> a8, publ |-> b8] ELSE v0

(***************************************************************************)
(* Concatenated operators.                                                 *)
(***************************************************************************)
\* torch.cat of square n x n blocks along dimension dim
Cat(blocks, n, dim) == [blocks |-> blocks, n |-> n, dim |-> dim, transposed |-> FALSE]

\* t.transpose(0, 1)
Transpose(t) == [t EXCEPT !.transposed = ~t.transposed]

NoTensor == [blocks |-> <<>>, n |-> 0, dim |-> 0, transposed |-> FALSE]

\* the shape of a concatenated operator
Shape(t) ==
    LET k == size0(t.blocks)
        s == IF t.dim = 0 THEN <<k * t.n, t.n>> ELSE <<t.n, k * t.n>>
    IN  IF t.transposed THEN <<s[2], s[1]>> ELSE s

\* the entry at (r, c) of a concatenated operator
Entry(t, r, c) ==
    LET rr == IF t.transposed THEN c ELSE r
        cc == IF t.transposed THEN r ELSE c
    IN  IF t.dim = 0
        THEN IF t.blocks[rr \div t.n][rr % t.n] = cc THEN 1 ELSE 0
        ELSE IF t.blocks[cc \div t.n][rr] = cc % t.n THEN 1 ELSE 0

(***************************************************************************)
(* Shaped tensors.  A tensor is its shape, its entries by row-major flat   *)
(* index (an absent index is an entry 0) and a common denominator den: the *)
(* entry at f is data[f] / den.  den = 0 marks that the operation raised.  *)
(***************************************************************************)
RECURSIVE Prod(_)
Prod(shape) == IF shape = <<>> THEN 1 ELSE Head(shape) * Prod(Tail(shape))

RECURSIVE Flat(_, _)
Flat(shape, idx) ==
    IF shape = <<>> THEN 0
    ELSE idx[1] * Prod(Tail(shape)) + Flat(Tail(shape), Tail(idx))

RECURSIVE Unflat(_, _)
Unflat(shape, f) ==
    IF shape = <<>> THEN <<>>
    ELSE LET p == Prod(Tail(shape))
         IN  <<f \div p>> \o Unflat(Tail(shape), f % p)

Tensor(shape, data) == [shape |-> shape, data |-> data, den |-> 1]

RaisedT == [shape |-> <<>>, data |-> <<>>, den |-> 0]

At(t, idx) ==
    LET f == Flat(t.shape, idx)
    IN  IF f \in DOMAIN t.data THEN t.data[f] ELSE 0

\* t.reshape(shape) / t.view(shape); one size may be -1 and is inferred
Reshape(t, shape) ==
    LET n == Prod(t.shape)
        known == Prod([i \in DOMAIN shape |-> IF shape[i] = -1 THEN 1 ELSE shape[i]])
        inferred == [i \in DOMAIN shape |->
                        IF shape[i] = -1 THEN (IF known = 0 THEN 0 ELSE n \div known)
                        ELSE shape[i]]
    IN  IF t.den = 0 \/ Prod(inferred) # n THEN RaisedT
        ELSE [t EXCEPT !.shape = inferred]

Swap(idx, a, b) ==
    [i \in DOMAIN idx |->
        IF i = a + 1 THEN idx[b + 1] ELSE IF i = b + 1 THEN idx[a + 1] ELSE idx[i]]

\* t.transpose(a, b), entries moved to their new row-major places
TTranspose(t, a, b) ==
    IF t.den = 0 THEN RaisedT
    ELSE LET s2 == Swap(t.shape, a, b)
             to == {Flat(s2, Swap(Unflat(t.shape, f), a, b)) : f \in DOMAIN t.data}
         IN  [t EXCEPT !.shape = s2,
                       !.data = Materialize(
                           [f2 \in to |-> t.data[Flat(t.shape, Swap(Unflat(s2, f2), a, b))]],
                           to)]

\* t.flatten(1, 2) of a 4-d tensor
Flatten12(t) ==
    IF t.den = 0 THEN RaisedT
    ELSE Reshape(t, <<t.shape[1], t.shape[2] * t.shape[3], t.shape[4]>>)

\* t.unsqueeze(0), t.squeeze(0)
Unsqueeze0(t) == IF t.den = 0 THEN RaisedT ELSE [t EXCEPT !.shape = <<1>> \o @]
Squeeze0(t) ==
    IF t.den = 0 THEN RaisedT
    ELSE IF t.shape # <<>> /\ t.shape[1] = 1 THEN [t EXCEPT !.shape = Tail(@)] ELSE t

\* t * 1 / n
DivBy(t, n) == IF t.den = 0 THEN RaisedT ELSE [t EXCEPT !.den = @ * n]

RECURSIVE SumFn(_, _)
SumFn(f, S) ==
    IF S = {} THEN 0
    ELSE LET k == CHOOSE x \in S : TRUE
         IN  f[k] + SumFn(f, S \ {k})

\* f[lo] + ... + f[hi], by halves
RECURSIVE SumRange(_, _, _)
SumRange(f, lo, hi) ==
    IF lo > hi THEN 0
    ELSE IF lo = hi THEN f[lo]
    ELSE LET mid == (lo + hi) \div 2
         IN  SumRange(f, lo, mid) + SumRange(f, mid + 1, hi)

\* the columns c of a concatenated operator with Entry(op, r, c) = 1
Columns(op, r) ==
    IF op.dim = 0 /\ ~op.transposed THEN {op.blocks[r \div op.n][r % op.n]}
    ELSE IF op.dim = 1 /\ ~op.transposed
    THEN {g * op.n + op.blocks[g][r] : g \in DOMAIN op.blocks}
    ELSE IF op.dim = 0
    THEN UNION {{g * op.n + j : j \in {k \in DOMAIN op.blocks[g] : op.blocks[g][k] = r}} :
                   g \in DOMAIN op.blocks}
    ELSE {j \in DOMAIN op.blocks[r \div op.n] : op.blocks[r \div op.n][j] = r % op.n}

\* torch.matmul(t, op): the last dimension of t against the rows of a
\* concatenated operator; entry (q, c) is the sum over r of t[q, r] * op[r, c]
MatMulOp(t, op) ==
    IF t.den = 0 \/ t.shape = <<>> THEN RaisedT
    ELSE LET R == t.shape[Len(t.shape)]
             C == Shape(op)[2]
             hits == UNION {{<<f, c>> : c \in Columns(op, f % R)} : f \in DOMAIN t.data}
             to == {(h[1] \div R) * C + h[2] : h \in hits}
             rows == {f \div R : f \in DOMAIN t.data}
             on == Materialize([q \in rows |-> {f \in DOMAIN t.data : f \div R = q}], rows)
             val(f2) ==
                 LET from == {f \in on[f2 \div C] : Entry(op, f % R, f2 % C) = 1}
                 IN  SumFn([f \in from |-> t.data[f]], from)
             all == Materialize([f2 \in to |-> val(f2)], to)
             nz == {f2 \in to : all[f2] # 0}
         IN  IF R # Shape(op)[1] THEN RaisedT
             ELSE [shape |-> [t.shape EXCEPT ![Len(t.shape)] = C],
                   data |-> Materialize([f2 \in nz |-> all[f2]], nz),
                   den |-> t.den]

(***************************************************************************)
(* Values of the library layers.  A value is a sum of terms, held as the   *)
(* function term |-> how many times it occurs.                             *)
(***************************************************************************)
Term(t) == t :> 1

LCAdd(x, y) ==
    [t \in DOMAIN x \cup DOMAIN y |->
        (IF t \in DOMAIN x THEN x[t] ELSE 0) + (IF t \in DOMAIN y THEN y[t] ELSE 0)]

LCScale(k, x) == IF k = 0 THEN <<>> ELSE [t \in DOMAIN x |-> k * x[t]]

RECURSIVE LCSum(_, _)
LCSum(f, S) ==
    IF S = {} THEN <<>>
    ELSE LET k == CHOOSE x \in S : TRUE
         IN  LCAdd(f[k], LCSum(f, S \ {k}))

\* t.sum(d) of a tensor of such values
SumDim(t, d) ==
    IF t.den = 0 THEN RaisedT
    ELSE LET s2 == SubSeq(t.shape, 1, d) \o SubSeq(t.shape, d + 2, Len(t.shape))
             put(idx, k) == SubSeq(idx, 1, d) \o <<k>> \o SubSeq(idx, d + 1, Len(idx))
             all == Range0(Prod(s2))
         IN  [shape |-> s2,
              data |-> Materialize(
                  [f2 \in all |->
                      LCSum([k \in Range0(t.shape[d + 1]) |->
                                t.data[Flat(t.shape, put(Unflat(s2, f2), k))]],
                            Range0(t.shape[d + 1]))],
                  all),
              den |-> t.den]

(***************************************************************************)
(* Constructors.                                                           *)
(***************************************************************************)
EquivariantProjection == "EquivariantProjection"
EquivariantLSTMNet == "EquivariantLSTMNet"
EquivariantPublicLSTMNet == "EquivariantPublicLSTMNet"
LSTMNet == "LSTMNet"

\* if isinstance(in_dim, int): ... in_dim - 125 else in_dim[1]
priv_in_dim_of(in_dim) == IF in_dim.is_int THEN in_dim.value - 125 ELSE in_dim.list[2]

\* if isinstance(in_dim, int): ... in_dim - 2 * 125 else in_dim[2]
publ_in_dim_of(in_dim) == IF in_dim.is_int THEN in_dim.value - 2 * 125 ELSE in_dim.list[3]

\* the blocks after the first with their columns in reverse order
HiddenCellRepeatReversed(hid_dim, n) ==
    Cat([g \in Range0(n) |->
            IF g = 0 THEN eye(hid_dim) ELSE [j \in Range0(hid_dim) |-> hid_dim - 1 - j]],
        hid_dim, 1)

\* torch.eye(self.hid_dim).repeat(1, self.num_symmetries): hid_dim rows,
\* the identity num_symmetries times side by side
HiddenCellRepeat(hid_dim, n) == Cat([g \in Range0(n) |-> eye(hid_dim)], hid_dim, 1)

\* the branch of the if / elif / else chain that a group type takes
Branch(gt) == IF gt \in {"cyclic", "dihedral"} THEN gt ELSE "symmetric"

\* the tables without the identity blocks the operators start from
ProjTablesNoIdentity(sad) ==
    LET symm == ProjSymmetries
        n    == size0(symm)
        W    == IF sad THEN 713 ELSE 658
        ins  == Materialize([g \in Range0(n) |-> ProjInputPerm(sad, symm[g])], Range0(n))
        outs == Materialize([g \in Range0(n) |-> ProjOutputPerm(symm[g])], Range0(n))
    IN  [ok |-> \A g \in Range0(n) : ins[g] # Raised /\ outs[g] # Raised,
         symmetries |-> symm, inv_symmetries |-> <<>>, num_symmetries |-> n,
         input_perms |-> Cat(ins, W, 1),
         publ_input_perms |-> NoTensor,
         output_perms |-> Cat(outs, 21, 0)]

\* EquivariantProjection.__init__: the group table and the two operator
\* loops, each torch.cat appending one block after the identity
ProjTables(sad) ==
    LET symm == ProjSymmetries
        n    == size0(symm) + 1
        W    == IF sad THEN 713 ELSE 658
        ins  == Materialize([g \in Range0(n) |->
                    IF g = 0 THEN eye(W) ELSE ProjInputPerm(sad, symm[g - 1])], Range0(n))
        outs == Materialize([g \in Range0(n) |->
                    IF g = 0 THEN eye(21) ELSE ProjOutputPerm(symm[g - 1])], Range0(n))
    IN  [ok |-> \A g \in Range0(n) : ins[g] # Raised /\ outs[g] # Raised,
         symmetries |-> symm, inv_symmetries |-> <<>>, num_symmetries |-> n,
         input_perms |-> Cat(ins, W, 1),
         publ_input_perms |-> NoTensor,
         output_perms |-> Cat(outs, 21, 0)]

\* EquivariantLSTMNet.__init__: the group table, its argsort, and the two
\* operator loops, for the group type gt
PrivTables(W, out_dim, gt) ==
    LET symm == GroupTable(gt)
        n    == size0(symm)
        inv  == argsort(symm)
        ins  == Materialize([g \in Range0(n) |->
                    IF g = 0 THEN eye(W) ELSE PrivInputPerm(W, symm[g])], Range0(n))
        outs == Materialize([g \in Range0(n) |->
                    IF g = 0 THEN eye(out_dim) ELSE NetOutputPerm(out_dim, inv[g])],
                    Range0(n))
    IN  [ok |-> \A g \in Range0(n) : ins[g] # Raised /\ outs[g] # Raised,
         symmetries |-> symm, inv_symmetries |-> inv, num_symmetries |-> n,
         input_perms |-> Transpose(Cat(ins, W, 0)),
         publ_input_perms |-> NoTensor,
         output_perms |-> Cat(outs, out_dim, 0)]

\* EquivariantPublicLSTMNet.__init__: the same, with perm_priv and perm_publ
PublTables(W, V, out_dim, gt) ==
    LET symm == GroupTable(gt)
        n    == size0(symm)
        inv  == argsort(symm)
        both == Materialize([g \in Range0(n) |->
                    IF g = 0 THEN [priv |-> eye(W), publ |-> eye(V)]
                    ELSE PublInputPerms(W, V, symm[g])], Range0(n))
        outs == Materialize([g \in Range0(n) |->
                    IF g = 0 THEN eye(out_dim) ELSE NetOutputPerm(out_dim, inv[g])],
                    Range0(n))
    IN  [ok |-> \A g \in Range0(n) :
                   both[g].priv # Raised /\ both[g].publ # Raised /\ outs[g] # Raised,
         symmetries |-> symm, inv_symmetries |-> inv, num_symmetries |-> n,
         input_perms |-> Transpose(Cat([g \in Range0(n) |-> both[g].priv], W, 0)),
         publ_input_perms |-> Transpose(Cat([g \in Range0(n) |-> both[g].publ], V, 0)),
         output_perms |-> Cat(outs, out_dim, 0)]

\* LSTMNet.__init__ keeps no symmetry tables
PlainTables ==
    [ok |-> TRUE,
     symmetries |-> <<>>, inv_symmetries |-> <<>>, num_symmetries |-> 0,
     input_perms |-> NoTensor, publ_input_perms |-> NoTensor,
     output_perms |-> NoTensor]

(***************************************************************************)
(* Inputs.                                                                 *)
(***************************************************************************)
Modules == {EquivariantProjection, EquivariantLSTMNet, EquivariantPublicLSTMNet, LSTMNet}

\* in_dim: the int 783 of the backward-compatible path, or the list
\* [total, private, public] of the wide layout
InDims ==
    { [is_int |-> TRUE, value |-> 783, list |-> <<>>],
      [is_int |-> FALSE, value |-> 0, list |-> <<838, 713, 588>>] }

NoInDim == [is_int |-> FALSE, value |-> 0, list |-> <<>>]

OutDim == 21

ArgSets(m) ==
    IF m = EquivariantProjection
    THEN {[sad |-> s, in_dim |-> NoInDim, hid_dim |-> 0, out_dim |-> OutDim,
           num_lstm_layer |-> 0] : s \in BOOLEAN}
    ELSE {[sad |-> FALSE, in_dim |-> d, hid_dim |-> h, out_dim |-> o,
           num_lstm_layer |-> l] :
              d \in InDims, h \in 1 .. MaxHidDim, l \in 1 .. MaxLayers,
              o \in (IF m = LSTMNet THEN 2 .. MaxActions ELSE {OutDim})}

NoCall == [op |-> "none"]

\* The tables of every configuration, built once: a constructor call with
\* the same layout and group type builds the same tables.
ProjTablesBuilt == Materialize([sad \in BOOLEAN |-> ProjTables(sad)], BOOLEAN)

TableKeys == InDims \X {"cyclic", "dihedral", "symmetric"}

PrivTablesBuilt ==
    Materialize([k \in TableKeys |-> PrivTables(priv_in_dim_of(k[1]), OutDim, k[2])],
                TableKeys)

PublTablesBuilt ==
    Materialize([k \in TableKeys |->
                    PublTables(priv_in_dim_of(k[1]), publ_in_dim_of(k[1]), OutDim, k[2])],
                TableKeys)

\* what __init__ of module m leaves for arguments a when self.group_type = gt
ModuleInit(m, a, gt) ==
    IF m = EquivariantProjection
    THEN [tables |-> ProjTablesBuilt[a.sad], group_type |-> "",
          hidden_cell_repeat |-> NoTensor]
    ELSE IF m = EquivariantLSTMNet
    THEN LET t == PrivTablesBuilt[<<a.in_dim, Branch(gt)>>]
         IN  [tables |-> t, group_type |-> gt,
              hidden_cell_repeat |-> HiddenCellRepeat(a.hid_dim, t.num_symmetries)]
    ELSE IF m = EquivariantPublicLSTMNet
    THEN LET t == PublTablesBuilt[<<a.in_dim, Branch(gt)>>]
         IN  [tables |-> t, group_type |-> gt,
              hidden_cell_repeat |-> HiddenCellRepeat(a.hid_dim, t.num_symmetries)]
    ELSE [tables |-> PlainTables, group_type |-> "", hidden_cell_repeat |-> NoTensor]

\* the group type line 447 / 693 assigns
ShippedGroupType == "cyclic"

GroupTypes == {"cyclic", "dihedral", "symmetric", "klein"}

(***************************************************************************)
(* get_h0 and act of EquivariantLSTMNet.                                   *)
(***************************************************************************)
\* torch.zeros(*shape): every entry absent
ZerosT(shape) == Tensor(shape, <<>>)

\* get_h0(batchsize) of LSTMNet, EquivariantLSTMNet, EquivariantPublicLSTMNet
get_h0(batchsize) ==
    LET shape == <<args.num_lstm_layer, batchsize, args.hid_dim>>
    IN  [h0 |-> ZerosT(shape), c0 |-> ZerosT(shape)]

\* what the library layers compute row q of the batch from: the input row
\* and the row's incoming hidden and cell state of every layer
LstmKey(x, h0, c0, q) ==
    LET W == x.shape[3]
        on == {f % W : f \in {g \in DOMAIN x.data : g \div W = q}}
    IN  << Materialize([j \in on |-> x.data[q * W + j]], on),
           [l \in Range0(h0.shape[1]) |-> [d \in Range0(h0.shape[3]) |-> At(h0, <<l, q, d>>)]],
           [l \in Range0(c0.shape[1]) |-> [d \in Range0(c0.shape[3]) |-> At(c0, <<l, q, d>>)]] >>

NoLayers == [ok |-> FALSE, a |-> RaisedT, h |-> RaisedT, c |-> RaisedT]

\* x = self.net(priv_s); o, (h, c) = self.lstm(x, (hid_h0, hid_c0));
\* a = self.fc_a(o), for priv_s of one time step [1, N, in_dim].  nn.Linear
\* wants in_dim features and nn.LSTM states of shape [num_layers, N, hid_dim].
NetLstmFcA(x, h0, c0, in_dim, hid_dim, num_layers, out_dim) ==
    IF x.den = 0 \/ h0.den = 0 \/ c0.den = 0 THEN NoLayers
    ELSE IF \/ Len(x.shape) # 3
            \/ x.shape[Len(x.shape)] # in_dim
            \/ h0.shape # <<num_layers, x.shape[2], hid_dim>>
            \/ c0.shape # <<num_layers, x.shape[2], hid_dim>>
    THEN NoLayers
    ELSE LET N == x.shape[2]
             keys == Materialize([q \in Range0(N) |-> LstmKey(x, h0, c0, q)], Range0(N))
             hsh == <<num_layers, N, hid_dim>>
             cells(name) ==
                 Materialize([f \in Range0(Prod(hsh)) |->
                                 LET idx == Unflat(hsh, f)
                                 IN  Term(<<name, idx[1], idx[3], keys[idx[2]]>>)],
                             Range0(Prod(hsh)))
         IN  [ok |-> TRUE,
              a |-> Tensor(<<1, N, out_dim>>,
                           Materialize([f \in Range0(N * out_dim) |->
                                           Term(<<"a", f % out_dim, keys[f \div out_dim]>>)],
                                       Range0(N * out_dim))),
              h |-> Tensor(hsh, cells("h")),
              c |-> Tensor(hsh, cells("c"))]

\* the same product with block g of t against block g + 1 of op
BMatMulOpShifted(t, op, n, k) ==
    IF t.den = 0 \/ t.shape = <<>> THEN RaisedT
    ELSE IF Len(t.shape) # 3 \/ t.shape[1] # n \/ t.shape[3] # k \/ Shape(op) # <<n * k, k>>
    THEN RaisedT
    ELSE LET all == Range0(Prod(t.shape))
         IN  [shape |-> t.shape,
              data |-> Materialize(
                  [f \in all |->
                      LET idx == Unflat(t.shape, f)
                          blk == (idx[1] + 1) % n
                          on == {i \in Range0(k) : Entry(op, blk * k + i, idx[3]) # 0}
                      IN  LCSum([i \in on |->
                                    LCScale(Entry(op, blk * k + i, idx[3]),
                                            t.data[Flat(t.shape, <<idx[1], idx[2], i>>)])],
                                on)],
                  all),
              den |-> t.den]

\* torch.matmul(t, op) of t [n, B, k] with op viewed as [n, k, k]: block g of
\* t against block g of op
BMatMulOp(t, op, n, k) ==
    IF t.den = 0 \/ t.shape = <<>> THEN RaisedT
    ELSE IF Len(t.shape) # 3 \/ t.shape[1] # n \/ t.shape[3] # k \/ Shape(op) # <<n * k, k>>
    THEN RaisedT
    ELSE LET all == Range0(Prod(t.shape))
         IN  [shape |-> t.shape,
              data |-> Materialize(
                  [f \in all |->
                      LET idx == Unflat(t.shape, f)
                          on == {i \in Range0(k) : Entry(op, idx[1] * k + i, idx[3]) # 0}
                      IN  LCSum([i \in on |->
                                    LCScale(Entry(op, idx[1] * k + i, idx[3]),
                                            t.data[Flat(t.shape, <<idx[1], idx[2], i>>)])],
                                on)],
                  all),
              den |-> t.den]

NoAct == [raised |-> TRUE, a |-> RaisedT, h0 |-> RaisedT, c0 |-> RaisedT]

\* EquivariantLSTMNet.act(priv_s, publ_s, hid) on the tables ins, outs, rep
\* of a module with n group elements
ActWith(ins, outs, rep, n, priv_s, hid) ==
    LET W == priv_in_dim_of(args.in_dim)
        H == args.hid_dim
        bsize == hid.h0.shape[1]
        h0f == Flatten12(TTranspose(hid.h0, 0, 1))
        c0f == Flatten12(TTranspose(hid.c0, 0, 1))
        batchsize == priv_s.shape[1]
        hid_h0 == Reshape(MatMulOp(h0f, rep), <<2, h0f.shape[2] * n, H>>)
        hid_c0 == Reshape(MatMulOp(c0f, rep), <<2, c0f.shape[2] * n, H>>)
    IN  IF hid_h0.den = 0 \/ hid_c0.den = 0 THEN NoAct
        ELSE
        LET ps == Unsqueeze0(Reshape(MatMulOp(priv_s, ins), <<batchsize * n, W>>))
            y == NetLstmFcA(ps, hid_h0, hid_c0, W, H, args.num_lstm_layer, args.out_dim)
            a1 == Reshape(Squeeze0(y.a), <<batchsize, n, args.out_dim>>)
            a2 == DivBy(SumDim(BMatMulOp(TTranspose(a1, 0, 1), outs, n, args.out_dim), 0), n)
            h1 == DivBy(SumDim(Reshape(y.h, <<2, -1, n, H>>), 2), n)
            c1 == DivBy(SumDim(Reshape(y.c, <<2, -1, n, H>>), 2), n)
            interim_hid_shape == <<args.num_lstm_layer, bsize, -1, H>>
            h2 == TTranspose(Reshape(h1, interim_hid_shape), 0, 1)
            c2 == TTranspose(Reshape(c1, interim_hid_shape), 0, 1)
        IN  IF ~y.ok \/ a2.den = 0 \/ h2.den = 0 \/ c2.den = 0 THEN NoAct
            ELSE [raised |-> FALSE, a |-> a2, h0 |-> h2, c0 |-> c2]

act(priv_s, hid) ==
    ActWith(input_perms, output_perms, hidden_cell_repeat, num_symmetries, priv_s, hid)

\* Observations of the private layout, by their 1-entries: two cards of the
\* partner hand with a colour hint as last action; a card of the own-hand
\* knowledge, a discard, a firework and a revealed colour with the life
\* tokens entry; the greedy-action fields of the wide layout, which the
\* narrow layout answers with the entries outside every colour field.
Observations(W) ==
    { {1, 38, 262}, {187, 235, 150, 368} }
        \cup (IF W = 713 THEN {{667, 693, 150}} ELSE {{150, 260}})

\* batches [batchsize, W] of such observations: for every batch size, the
\* observations in turn from each first one
PrivBatches(W) ==
    LET obs == Observations(W)
        RECURSIVE InTurn(_, _)
        InTurn(left, b) ==
            IF b = 0 THEN {<<>>}
            ELSE {<<o>> \o rest : o \in {CHOOSE x \in left : TRUE},
                                  rest \in InTurn(IF left \ {CHOOSE x \in left : TRUE} = {}
                                                  THEN obs
                                                  ELSE left \ {CHOOSE x \in left : TRUE}, b - 1)}
    IN  UNION { { Tensor(<<b, W>>,
                     LET on == UNION {{k * W + j : j \in rows[k + 1]} : k \in Range0(b)}
                     IN  Materialize([f \in on |-> 1], on)) :
                  rows \in UNION {{<<first>> \o rest : rest \in InTurn(obs \ {first}, b - 1)} :
                                    first \in obs} } : b \in 1 .. MaxBatch }

\* recurrent state [batch, num_layer, num_player, dim] for batchsize rows:
\* one or all rows per batch entry; zero as get_h0 gives it, or every entry
\* different
HidInputs(batchsize) ==
    { LET shape == <<batchsize \div p, args.num_lstm_layer, p, args.hid_dim>>
          all == Range0(Prod(shape))
      IN  IF z THEN [h0 |-> ZerosT(shape), c0 |-> ZerosT(shape)]
          ELSE [h0 |-> Tensor(shape, Materialize([f \in all |-> f + 1], all)),
                c0 |-> Tensor(shape, Materialize([f \in all |-> f + 101], all))] :
      p \in {1, batchsize}, z \in BOOLEAN }

(***************************************************************************)
(* EquivariantProjection.project.                                          *)
(***************************************************************************)
\* torch.matmul(op, t): the columns of a concatenated operator against the
\* first dimension of t, [R, K] or [R]
OpMatMul(op, t) ==
    IF t.den = 0 \/ t.shape = <<>> THEN RaisedT
    ELSE LET K == Prod(Tail(t.shape))
             rows == Shape(op)[1]
             val(f2) ==
                 LET cs == Columns(op, f2 \div K)
                 IN  SumFn([c \in cs |-> IF c * K + (f2 % K) \in DOMAIN t.data
                                         THEN t.data[c * K + (f2 % K)] ELSE 0], cs)
             nz == {f2 \in Range0(rows * K) : val(f2) # 0}
         IN  IF Shape(op)[2] # t.shape[1] THEN RaisedT
             ELSE [shape |-> <<rows>> \o Tail(t.shape),
                   data |-> Materialize([f2 \in nz |-> val(f2)], nz),
                   den |-> t.den]

\* torch.sum(t, d) of a tensor of numbers
SumDimN(t, d) ==
    IF t.den = 0 THEN RaisedT
    ELSE LET s2 == SubSeq(t.shape, 1, d) \o SubSeq(t.shape, d + 2, Len(t.shape))
             inner == Prod(SubSeq(t.shape, d + 2, Len(t.shape)))
             size == t.shape[d + 1]
             drop(f) == (f \div (inner * size)) * inner + (f % inner)
             put(f2, k) == (f2 \div inner) * inner * size + k * inner + (f2 % inner)
             val(f2) ==
                 SumRange([k \in Range0(size) |->
                              IF put(f2, k) \in DOMAIN t.data THEN t.data[put(f2, k)] ELSE 0],
                          0, size - 1)
             nz == {f2 \in {drop(f) : f \in DOMAIN t.data} : val(f2) # 0}
         IN  [shape |-> s2,
              data |-> Materialize([f2 \in nz |-> val(f2)], nz),
              den |-> t.den]

\* project(input_weight, output_weight, output_bias) on the tables ins, outs
\* of a module with n group elements
ProjectWith(ins, outs, n, input_weight, output_weight, output_bias) ==
    LET w1 == Reshape(MatMulOp(input_weight, ins),
                      <<input_weight.shape[1], n, input_weight.shape[2]>>)
        symm_input_weight == DivBy(SumDimN(w1, 1), n)
        w2 == Reshape(OpMatMul(outs, output_weight),
                      <<n, output_weight.shape[1], output_weight.shape[2]>>)
        symm_output_weight == DivBy(SumDimN(w2, 0), n)
        w3 == Reshape(OpMatMul(outs, output_bias), <<n, output_bias.shape[1]>>)
        symm_output_bias == DivBy(SumDimN(w3, 0), n)
    IN  [raised |-> symm_input_weight.den = 0 \/ symm_output_weight.den = 0
                        \/ symm_output_bias.den = 0,
         symm_input_weight |-> symm_input_weight,
         symm_output_weight |-> symm_output_weight,
         symm_output_bias |-> symm_output_bias]

\* project with the last layer returned as it was passed
projectFirstLayerOnly(input_weight, output_weight, output_bias) ==
    LET r == ProjectWith(input_perms, output_perms, num_symmetries,
                         input_weight, output_weight, output_bias)
    IN  IF r.raised THEN r
        ELSE [r EXCEPT !.symm_output_weight = output_weight,
                       !.symm_output_bias = output_bias]

project(input_weight, output_weight, output_bias) ==
    ProjectWith(input_perms, output_perms, num_symmetries,
                input_weight, output_weight, output_bias)

\* a tensor of numbers from its entries by index; zero entries are left out
TensorOf(shape, entry(_)) ==
    LET on == {f \in Range0(Prod(shape)) : entry(Unflat(shape, f)) # 0}
    IN  Tensor(shape, Materialize([f \in on |-> entry(Unflat(shape, f))], on))

\* First-layer weights [hid, W]: weights on a partner-hand card, a hinted
\* colour, a scalar entry and, further down, a discard, a revealed colour
\* and a card of the last block of the layout; or weights on a firework,
\* a last-action card and a revealed colour only.
InputWeights(W) ==
    UNION { { TensorOf(<<hid, W>>,
                 LAMBDA idx :
                     IF idx[1] = 0
                     THEN (IF idx[2] = 1 THEN 3 ELSE IF idx[2] = 262 THEN -2
                           ELSE IF idx[2] = 150 THEN 5 ELSE 0)
                     ELSE (IF idx[2] = 205 THEN idx[1] ELSE IF idx[2] = 335 THEN 4
                           ELSE IF idx[2] = W - 10 THEN 7 ELSE 0)),
              TensorOf(<<hid, W>>,
                 LAMBDA idx :
                     IF idx[1] = hid - 1
                     THEN (IF idx[2] = 170 THEN 1 ELSE IF idx[2] = 300 THEN 6
                           ELSE IF idx[2] = 370 THEN -1 ELSE 0)
                     ELSE 0) } : hid \in 1 .. MaxHidDim }

\* Last-layer weights [21, K] and bias [21] for K features: every entry
\* different, or the rows of the hint colours alone
OutputWeights(K) ==
    { TensorOf(<<21, K>>, LAMBDA idx : 1 + idx[1] * K + idx[2]),
      TensorOf(<<21, K>>, LAMBDA idx : IF idx[1] \in 10 .. 14 THEN idx[1] - 12 + idx[2] ELSE 0) }

OutputBiases ==
    { TensorOf(<<21>>, LAMBDA idx : idx[1] + 1),
      TensorOf(<<21>>, LAMBDA idx : IF idx[1] = 11 THEN -3 ELSE 0) }

(***************************************************************************)
(* duel and LSTMNet.forward.                                               *)
(***************************************************************************)
\* duel(v, a, legal_move): q = v + legal_a - legal_a.mean(2, keepdim=True),
\* v [seq, batch, 1] broadcast over the actions; the entries of q over the
\* denominator K * v.den * a.den, K the size of dimension 2
duel(v, a, legal_move) ==
    IF v.den = 0 \/ a.den = 0 \/ legal_move.den = 0 THEN RaisedT
    ELSE IF a.shape # legal_move.shape \/ Len(legal_move.shape) # 3 THEN RaisedT
    ELSE IF v.shape # <<a.shape[1], a.shape[2], 1>> THEN RaisedT
    ELSE LET K == a.shape[3]
             P == a.shape[1] * a.shape[2]
             both == DOMAIN a.data \cap DOMAIN legal_move.data
             legal_a == Materialize([f \in both |-> a.data[f] * legal_move.data[f]], both)
             total == Materialize(
                          [p \in Range0(P) |->
                              SumRange([j \in Range0(K) |->
                                           IF p * K + j \in both THEN legal_a[p * K + j] ELSE 0],
                                       0, K - 1)],
                          Range0(P))
             q == Materialize(
                      [f \in Range0(P * K) |->
                          K * a.den * (IF f \div K \in DOMAIN v.data THEN v.data[f \div K] ELSE 0)
                              + K * v.den * (IF f \in both THEN legal_a[f] ELSE 0)
                              - v.den * total[f \div K]],
                      Range0(P * K))
             nz == {f \in Range0(P * K) : q[f] # 0}
         IN  [shape |-> a.shape, data |-> Materialize([f \in nz |-> q[f]], nz),
              den |-> K * v.den * a.den]

\* q.min(): the least entry of q, as a numerator over q.den
MinOf(q) ==
    LET all == {q.data[f] : f \in DOMAIN q.data}
                   \cup (IF \E f \in Range0(Prod(q.shape)) : f \notin DOMAIN q.data
                         THEN {0} ELSE {})
    IN  CHOOSE m \in all : \A x \in all : m <= x

\* q.gather(2, action.unsqueeze(2)).squeeze(2)
Gather2(q, action) ==
    IF q.den = 0 \/ action.den = 0 THEN RaisedT
    ELSE IF action.shape # <<q.shape[1], q.shape[2]>> THEN RaisedT
    ELSE IF \E f \in DOMAIN action.data : action.data[f] \notin Range0(q.shape[3])
    THEN RaisedT
    ELSE LET K == q.shape[3]
             from(p) == p * K + (IF p \in DOMAIN action.data THEN action.data[p] ELSE 0)
             nz == {p \in Range0(Prod(action.shape)) : from(p) \in DOMAIN q.data}
         IN  [shape |-> action.shape,
              data |-> Materialize([p \in nz |-> q.data[from(p)]], nz),
              den |-> q.den]

\* the mask applied to q as it is, without the shift by 1 - q.min()
LegalQUnshifted(q, legal_move) ==
    IF q.den = 0 \/ q.shape # legal_move.shape THEN RaisedT
    ELSE [TensorOf(q.shape, LAMBDA idx : At(q, idx) * At(legal_move, idx))
          EXCEPT !.den = q.den]

\* legal_q = (1 + q - q.min()) * legal_move
LegalQ(q, legal_move) ==
    IF q.den = 0 \/ q.shape # legal_move.shape THEN RaisedT
    ELSE LET m == MinOf(q)
             val(f) == (q.den + (IF f \in DOMAIN q.data THEN q.data[f] ELSE 0) - m)
                           * legal_move.data[f]
             nz == {f \in DOMAIN legal_move.data : val(f) # 0}
         IN  [shape |-> q.shape, data |-> Materialize([f \in nz |-> val(f)], nz),
              den |-> q.den]

\* legal_q.argmax(2): for every (step, sample) an index of a greatest entry;
\* which one among equal greatest entries is left open
ArgMax2(t) ==
    LET K == t.shape[3]
        P == t.shape[1] * t.shape[2]
        entry(p, i) == IF p * K + i \in DOMAIN t.data THEN t.data[p * K + i] ELSE 0
        best == Materialize(
                    [p \in Range0(P) |->
                        {i \in Range0(K) : \A j \in Range0(K) : entry(p, j) <= entry(p, i)}],
                    Range0(P))
        RECURSIVE Pick(_, _)
        Pick(lo, hi) ==
            IF lo > hi THEN {<<>>}
            ELSE IF lo = hi THEN {IF i = 0 THEN <<>> ELSE lo :> i : i \in best[lo]}
            ELSE LET mid == (lo + hi) \div 2
                 IN  {f @@ g : f \in Pick(lo, mid), g \in Pick(mid + 1, hi)}
    IN  {Tensor(<<t.shape[1], t.shape[2]>>, g) : g \in Pick(0, P - 1)}

\* what the layers compute the output o[t, b] from: the rows of sample b up
\* to step t and the sample's recurrent state
SeqKey(x, hid, t, b) ==
    LET W == x.shape[3]
        row(s) ==
            LET base == (s * x.shape[2] + b) * W
            IN  {<<f - base, x.data[f]>> :
                    f \in {g \in DOMAIN x.data : base <= g /\ g < base + W}}
    IN  << [s \in 0 .. t |-> row(s)],
           IF hid.given
           THEN [l \in Range0(hid.h0.shape[1]) |->
                    [d \in Range0(hid.h0.shape[3]) |->
                        <<At(hid.h0, <<l, b, d>>), At(hid.c0, <<l, b, d>>)>>]]
           ELSE <<>> >>

NoForward ==
    [raised |-> TRUE, qa |-> RaisedT, greedy_action |-> RaisedT, q |-> RaisedT, o |-> RaisedT]

\* LSTMNet.forward(priv_s, publ_s, legal_move, action, hid).  fc_a and fc_v
\* hold weights nothing is known about: a and v are the numbers they give.
\* The result is the set of what forward can return, one for every choice
\* argmax can make.
forward(priv_s, legal_move, action, hid, a, v) ==
    LET one_step == Len(priv_s.shape) = 2
        x  == IF one_step THEN Unsqueeze0(priv_s) ELSE priv_s
        lm == IF one_step THEN Unsqueeze0(legal_move) ELSE legal_move
        ac == IF one_step THEN Unsqueeze0(action) ELSE action
        hsh == <<args.num_lstm_layer, x.shape[2], args.hid_dim>>
        osh == <<x.shape[1], x.shape[2], args.hid_dim>>
        keys == Materialize([p \in Range0(x.shape[1] * x.shape[2]) |->
                                SeqKey(x, hid, p \div x.shape[2], p % x.shape[2])],
                            Range0(x.shape[1] * x.shape[2]))
        o == Tensor(osh,
                 Materialize([f \in Range0(Prod(osh)) |->
                                 Term(<<"o", f % args.hid_dim, keys[f \div args.hid_dim]>>)],
                             Range0(Prod(osh))))
        q == duel(v, a, lm)
        qa == Gather2(q, ac)
        legal_q == LegalQ(q, lm)
    IN  IF \/ Len(priv_s.shape) \notin {2, 3}
           \/ x.shape[3] # priv_in_dim_of(args.in_dim)
           \/ (hid.given /\ (hid.h0.shape # hsh \/ hid.c0.shape # hsh))
           \/ a.shape # <<x.shape[1], x.shape[2], args.out_dim>>
           \/ q.den = 0 \/ qa.den = 0 \/ legal_q.den = 0
        THEN {NoForward}
        ELSE { [raised |-> FALSE,
                qa |-> IF one_step THEN Squeeze0(qa) ELSE qa,
                greedy_action |-> IF one_step THEN Squeeze0(g) ELSE g,
                q |-> IF one_step THEN Squeeze0(q) ELSE q,
                o |-> IF one_step THEN Squeeze0(o) ELSE o] : g \in ArgMax2(legal_q) }

\* the first observations of the private layout, in a fixed order
ObservationAt(W, k) == IF k % 2 = 0 THEN {1, 38, 262} ELSE {187, 235, 150, 368}

\* priv_s [seq, batch, W], or [batch, W] for seq = 0: a different observation
\* at every (step, sample)
PrivSeq(seq, batch, W) ==
    LET steps == IF seq = 0 THEN 1 ELSE seq
        on == UNION {{p * W + j : j \in ObservationAt(W, p)} : p \in Range0(steps * batch)}
    IN  Tensor(IF seq = 0 THEN <<batch, W>> ELSE <<seq, batch, W>>,
               Materialize([f \in on |-> 1], on))

\* the shapes forward is called with: one step [1, .]; two steps of one
\* sample; one step of two samples
ForwardShapes == {<<0, 1>>, <<2, 1>>, <<1, 2>>}

\* what the layers give for one (step, sample), and its legal moves
HeadRows(K) ==
    [a : [Range0(K) -> {-2, 1}], v : {-3, 2}, legal : [Range0(K) -> {0, 1}]]

\* the other (step, sample) of a two-row call: after the first row in a
\* sequence it has small values and one legal move, beside it in a batch it
\* has large values and every move legal
OtherRow(K, sh) ==
    IF sh[1] = 2
    THEN [a |-> [i \in Range0(K) |-> -4 - i], v |-> -5,
          legal |-> [i \in Range0(K) |-> IF i = K - 1 THEN 1 ELSE 0]]
    ELSE [a |-> [i \in Range0(K) |-> 3 + i], v |-> 4, legal |-> [i \in Range0(K) |-> 1]]

\* the recurrent state passed to forward: none (len(hid) == 0) or h0, c0
NoHid == [given |-> FALSE, h0 |-> RaisedT, c0 |-> RaisedT]

\* dimension 0 removed again from a one-step call's tensors
ShapeFor(sh, last_dims) == (IF sh[1] = 0 THEN <<>> ELSE <<sh[1]>>) \o <<sh[2]>> \o last_dims

(***************************************************************************)
(* The state machine.                                                      *)
(***************************************************************************)
Init ==
    /\ pc = "new"
    /\ module \in Modules
    /\ args \in ArgSets(module)
    /\ group_type = ""
    /\ symmetries = <<>>
    /\ inv_symmetries = <<>>
    /\ num_symmetries = 0
    /\ input_perms = NoTensor
    /\ publ_input_perms = NoTensor
    /\ output_perms = NoTensor
    /\ hidden_cell_repeat = NoTensor
    /\ last = NoCall

\* __init__ with self.group_type = gt: the object is ready, or the
\* constructor raised and there is no object
Construct(gt) ==
    /\ pc = "new"
    /\ \E r \in {ModuleInit(module, args, gt)} :
           IF r.tables.ok
           THEN /\ pc' = "ready"
                /\ group_type' = r.group_type
                /\ symmetries' = r.tables.symmetries
                /\ inv_symmetries' = r.tables.inv_symmetries
                /\ num_symmetries' = r.tables.num_symmetries
                /\ input_perms' = r.tables.input_perms
                /\ publ_input_perms' = r.tables.publ_input_perms
                /\ output_perms' = r.tables.output_perms
                /\ hidden_cell_repeat' = r.hidden_cell_repeat
           ELSE /\ pc' = "failed"
                /\ UNCHANGED <<group_type, symmetries, inv_symmetries, num_symmetries,
                               input_perms, publ_input_perms, output_perms,
                               hidden_cell_repeat>>
    /\ UNCHANGED <<module, args, last>>

\* A call leaves the module as it found it, so its result does not depend on
\* the calls before it: a behaviour constructs a module and makes one call.
Callable == pc = "ready" /\ last = NoCall

\* get_h0 of a module that has one
GetH0 ==
    /\ Callable
    /\ module # EquivariantProjection
    /\ \E batchsize \in 1 .. MaxBatch :
           last' = [op |-> "get_h0", batchsize |-> batchsize, ret |-> get_h0(batchsize)]
    /\ UNCHANGED <<pc, module, args, group_type, tables, hidden_cell_repeat>>

\* act of EquivariantLSTMNet
Act ==
    /\ Callable
    /\ module = EquivariantLSTMNet
    /\ \E priv_s \in PrivBatches(priv_in_dim_of(args.in_dim)) :
       \E hid \in HidInputs(priv_s.shape[1]) :
       \E r \in {act(priv_s, hid)} :
           last' = [op |-> "act", priv_s |-> priv_s, hid |-> hid, ret |-> r]
    /\ UNCHANGED <<pc, module, args, group_type, tables, hidden_cell_repeat>>

\* project of EquivariantProjection
Project ==
    /\ Callable
    /\ module = EquivariantProjection
    /\ \E input_weight \in InputWeights(IF args.sad THEN 713 ELSE 658) :
       \E output_weight \in OutputWeights(input_weight.shape[1]) :
       \E output_bias \in OutputBiases :
       \E r \in {project(input_weight, output_weight, output_bias)} :
           last' = [op |-> "project", input_weight |-> input_weight,
                    output_weight |-> output_weight, output_bias |-> output_bias,
                    ret |-> r]
    /\ UNCHANGED <<pc, module, args, group_type, tables, hidden_cell_repeat>>

\* forward of LSTMNet
Forward ==
    /\ Callable
    /\ module = LSTMNet
    /\ \E sh \in ForwardShapes :
       \E first \in HeadRows(args.out_dim) :
       \E given \in (IF sh[1] = 0 THEN {FALSE} ELSE {TRUE}) :
          LET K == args.out_dim
              rows == IF sh = <<0, 1>> THEN <<first>> ELSE <<first, OtherRow(K, sh)>>
              full == <<IF sh[1] = 0 THEN 1 ELSE sh[1], sh[2]>>
              at(idx) == rows[idx[1] * full[2] + idx[2] + 1]
              priv_s == PrivSeq(sh[1], sh[2], priv_in_dim_of(args.in_dim))
              legal_move == TensorOf(ShapeFor(sh, <<K>>),
                                LAMBDA idx : rows[Flat(ShapeFor(sh, <<K>>), idx) \div K + 1]
                                                 .legal[idx[Len(idx)]])
              action == TensorOf(ShapeFor(sh, <<>>),
                            LAMBDA idx : (Flat(ShapeFor(sh, <<>>), idx) + 1) % K)
              hid == IF given THEN [given |-> TRUE] @@ get_h0(sh[2]) ELSE NoHid
              a == TensorOf(full \o <<K>>, LAMBDA idx : at(idx).a[idx[3]])
              v == TensorOf(full \o <<1>>, LAMBDA idx : at(idx).v)
          IN  \E r \in forward(priv_s, legal_move, action, hid, a, v) :
                  last' = [op |-> "forward", priv_s |-> priv_s, legal_move |-> legal_move,
                           action |-> action, hid |-> hid, a |-> a, v |-> v, ret |-> r]
    /\ UNCHANGED <<pc, module, args, group_type, tables, hidden_cell_repeat>>

Next ==
    \/ Construct(ShippedGroupType)
    \/ GetH0
    \/ Act
    \/ Project
    \/ Forward

Spec == Init /\ [][Next]_vars

\* The same program with self.group_type assigned any string.
NextGroups ==
    \/ \E gt \in GroupTypes : Construct(gt)
    \/ GetH0

SpecGroups == Init /\ [][NextGroups]_vars

(***************************************************************************)
(* Vocabulary of the properties.                                           *)
(***************************************************************************)
EquivariantModules == {EquivariantProjection, EquivariantLSTMNet, EquivariantPublicLSTMNet}
EquivariantNets == {EquivariantLSTMNet, EquivariantPublicLSTMNet}

SupportedGroupTypes == {"cyclic", "dihedral", "symmetric"}

JustBuilt == pc = "ready" /\ last = NoCall

IdentityPerm == [i \in Range0(5) |-> i]

IsColourPerm(s) == DOMAIN s = Range0(5) /\ {s[i] : i \in Range0(5)} = Range0(5)

\* (s o t)(i) = s(t(i))
Compose(s, t) == [i \in Range0(5) |-> s[t[i]]]

\* The group the object averages over, in the order of its operator blocks:
\* block 0 is the identity operator; EquivariantProjection lists only the
\* other elements in self.symmetries and counts the identity in num_symmetries.
GroupList ==
    IF module = EquivariantProjection
    THEN [g \in Range0(num_symmetries) |-> IF g = 0 THEN IdentityPerm ELSE symmetries[g - 1]]
    ELSE symmetries

IsWide == IF module = EquivariantProjection THEN args.sad
          ELSE priv_in_dim_of(args.in_dim) = 713

PrivWidth == IF module = EquivariantProjection THEN (IF args.sad THEN 713 ELSE 658)
             ELSE priv_in_dim_of(args.in_dim)

\* The colour-sensitive fields of the private layout, as <<first, last + 1,
\* entries per colour>>: colour-major card blocks and single-colour one-hots.
PrivCardFields(wide) ==
    {<<25 * i, 25 * i + 25, 5>> : i \in Range0(5)}
        \cup {<<167, 192, 5>>, <<203, 253, 10>>, <<281, 306, 5>>}
        \cup {<<308 + 35 * k, 333 + 35 * k, 5>> : k \in Range0(10)}
        \cup (IF wide THEN {<<686, 711, 5>>} ELSE {})

PrivOneHotFields(wide) ==
    {<<261, 266, 1>>} \cup {<<333 + 35 * k, 338 + 35 * k, 1>> : k \in Range0(10)}
        \cup (IF wide THEN {<<666, 671, 1>>} ELSE {})

\* the public layout is the private one without the 125 partner-hand entries
PublFields(wide) ==
    {<<f[1] - 125, f[2] - 125, f[3]>> :
        f \in {h \in PrivCardFields(wide) \cup PrivOneHotFields(wide) : h[1] >= 125}}

OutputFields == {<<10, 15, 1>>}

\* one 1 in every column as well as in every row
IsPermutationMatrix(f) == {f[j] : j \in DOMAIN f} = DOMAIN f

\* identity outside the fields, and inside a field the 1 stays in the field
RespectsFields(f, fields) ==
    \A j \in DOMAIN f :
        \/ f[j] = j
        \/ \E fld \in fields : fld[1] <= j /\ j < fld[2] /\ fld[1] <= f[j] /\ f[j] < fld[2]

\* the colours (c, d) such that a row of colour c of the field has its 1 in a
\* column of colour d of the field
ColourPairs(f, fld) ==
    {<<(j - fld[1]) \div fld[3], (f[j] - fld[1]) \div fld[3]>> : j \in fld[1] .. (fld[2] - 1)}

\* the product A.B of two operators held as row |-> column
MatMul(A, B) == [r \in DOMAIN A |-> B[A[r]]]

\* the blocks of a concatenated operator
Blocks(t) == t.blocks

(***************************************************************************)
(* C7  Group enumerator: for the cyclic, dihedral and symmetric type the   *)
(* group table holds 5 / 10 / 120 pairwise distinct bijections of {0..4},  *)
(* the identity first, and is closed under composition.                    *)
(***************************************************************************)
ExpectedOrder ==
    IF module = EquivariantProjection THEN 120
    ELSE IF group_type = "cyclic" THEN 5
    ELSE IF group_type = "dihedral" THEN 10
    ELSE 120

C7_GroupTable ==
    (JustBuilt /\ module \in EquivariantModules
        /\ (module \in EquivariantNets => group_type \in SupportedGroupTypes))
    => LET G == GroupList
           n == size0(G)
           elems == {G[g] : g \in Range0(n)}
       IN  /\ n = ExpectedOrder
           /\ num_symmetries = n
           /\ \A g \in Range0(n) : IsColourPerm(G[g])
           /\ Cardinality(elems) = n
           /\ G[0] = IdentityPerm
           /\ {Compose(s, t) : s \in elems, t \in elems} \subseteq elems

C7_Witness ==
    JustBuilt /\ module = EquivariantPublicLSTMNet /\ group_type = "dihedral"
        /\ size0(symmetries) = 10

(***************************************************************************)
(* C8  A group type that is none of cyclic, dihedral, symmetric makes the  *)
(* constructor fail, and no group table is built for it.                   *)
(***************************************************************************)
C8_UnsupportedGroupTypeFails ==
    (pc = "ready" /\ module \in EquivariantNets)
    => (group_type \in SupportedGroupTypes /\ symmetries # <<>>)

(***************************************************************************)
(* C5  Every operator built (private input, public input, output) is a     *)
(* permutation matrix: one 1 per row and per column, the identity row      *)
(* outside the colour-sensitive fields, and inside a field the 1 stays in  *)
(* the same field.                                                         *)
(***************************************************************************)
C5_OperatorsArePermutations ==
    (JustBuilt /\ module \in EquivariantModules)
    => /\ \A g \in DOMAIN Blocks(input_perms) :
              /\ DOMAIN Blocks(input_perms)[g] = Range0(PrivWidth)
              /\ IsPermutationMatrix(Blocks(input_perms)[g])
              /\ RespectsFields(Blocks(input_perms)[g],
                                PrivCardFields(IsWide) \cup PrivOneHotFields(IsWide))
       /\ \A g \in DOMAIN Blocks(publ_input_perms) :
              /\ DOMAIN Blocks(publ_input_perms)[g] = Range0(publ_in_dim_of(args.in_dim))
              /\ IsPermutationMatrix(Blocks(publ_input_perms)[g])
              /\ RespectsFields(Blocks(publ_input_perms)[g], PublFields(IsWide))
       /\ \A g \in DOMAIN Blocks(output_perms) :
              /\ DOMAIN Blocks(output_perms)[g] = Range0(args.out_dim)
              /\ IsPermutationMatrix(Blocks(output_perms)[g])
              /\ RespectsFields(Blocks(output_perms)[g], OutputFields)

\* operators of a non-identity element are built, public ones included
C5_Witness ==
    /\ JustBuilt /\ module = EquivariantPublicLSTMNet
    /\ size0(Blocks(publ_input_perms)) = 5
    /\ Blocks(publ_input_perms)[1] # eye(533)
    /\ Blocks(input_perms)[1] # eye(658)
    /\ Blocks(output_perms)[1] # eye(21)

(***************************************************************************)
(* C6  With the wide layout (713 / 588) construction succeeds for every    *)
(* group element and the greedy-action blocks (private 666..670 and        *)
(* 686..710, public 541..545 and 561..585) are permuted within themselves; *)
(* with the narrow layout nothing at those offsets is referenced.          *)
(***************************************************************************)
MapsWithin(f, lo, hi) == {f[j] : j \in lo .. (hi - 1)} = lo .. (hi - 1)

C6_WideLayoutBuilds ==
    (pc # "new" /\ module \in EquivariantModules /\ IsWide)
    => /\ pc = "ready"
       /\ \A g \in DOMAIN Blocks(input_perms) :
              /\ MapsWithin(Blocks(input_perms)[g], 666, 671)
              /\ MapsWithin(Blocks(input_perms)[g], 686, 711)
       /\ \A g \in DOMAIN Blocks(publ_input_perms) :
              /\ MapsWithin(Blocks(publ_input_perms)[g], 541, 546)
              /\ MapsWithin(Blocks(publ_input_perms)[g], 561, 586)

(***************************************************************************)
(* C1  For every colour permutation the input operator relabels colours    *)
(* the same way in every colour-sensitive field: the colour map it induces *)
(* on the colour-major card blocks is the map it induces on the            *)
(* single-colour one-hot blocks.                                           *)
(***************************************************************************)
C1_ColourMapsAgree ==
    (JustBuilt /\ module \in EquivariantModules)
    => \A g \in DOMAIN Blocks(input_perms) :
           \A c \in PrivCardFields(IsWide), h \in PrivOneHotFields(IsWide) :
               ColourPairs(Blocks(input_perms)[g], c) = ColourPairs(Blocks(input_perms)[g], h)

(***************************************************************************)
(* C2  Group homomorphism: for all sigma, tau in S5 the input operator of  *)
(* sigma o tau is the matrix product operator(sigma).operator(tau).        *)
(***************************************************************************)
C2_Homomorphism ==
    (JustBuilt /\ module \in EquivariantModules /\ size0(GroupList) = 120)
    => \A g \in Range0(120), h \in Range0(120), k \in Range0(120) :
           GroupList[k] = Compose(GroupList[g], GroupList[h])
           => Blocks(input_perms)[k] = MatMul(Blocks(input_perms)[g], Blocks(input_perms)[h])

(***************************************************************************)
(* C3  Equivariance of act: for every element h of the module's group,     *)
(* every batch x and every recurrent state, act on the batch relabelled by *)
(* the module's input operator of h, with the same recurrent state,        *)
(* returns the advantages of act on x with the hint-colour entries 10..14  *)
(* relabelled by h (colour i of x is colour h(i) of the relabelled batch)  *)
(* and every other entry equal.                                            *)
(***************************************************************************)
\* the input operator of element h alone, as the factor of x @ P_h^T
InputOperator(h) ==
    Transpose(Cat(0 :> input_perms.blocks[h], input_perms.n, 0))

\* the advantages a of a batch with the hint-colour entries relabelled by symm
RelabelHints(a, symm) ==
    [a EXCEPT !.data =
        [f \in DOMAIN a.data |->
            LET j == f % a.shape[2]
                from == {i \in Range0(5) : 10 + symm[i] = j}
            IN  IF from = {} THEN a.data[f]
                ELSE a.data[f - j + 10 + (CHOOSE i \in from : TRUE)]]]

C3_ActEquivariant ==
    (module = EquivariantLSTMNet /\ last.op = "act" /\ ~last.ret.raised) =>
        \A h \in Range0(num_symmetries) :
            LET r == act(MatMulOp(last.priv_s, InputOperator(h)), last.hid)
            IN  /\ ~r.raised
                /\ r.a = RelabelHints(last.ret.a, symmetries[h])

\* act has returned advantages that differ between two hint colours for a
\* batch that some element of the group changes
C3_Witness ==
    /\ module = EquivariantLSTMNet /\ last.op = "act" /\ ~last.ret.raised
    /\ last.ret.a.data[10] # last.ret.a.data[11]
    /\ \E h \in Range0(num_symmetries) :
           /\ symmetries[h] # IdentityPerm
           /\ MatMulOp(last.priv_s, InputOperator(h)) # last.priv_s
           /\ RelabelHints(last.ret.a, symmetries[h]) # last.ret.a

(***************************************************************************)
(* C4  Weight projection: for the weights project returns and every        *)
(* element g of the module's group, W_in'.P_g = W_in', O_g.W_out' = W_out' *)
(* and O_g.b_out' = b_out'.  So for every observation x the first layer    *)
(* gives on P_g.x what it gives on x, and the last layer's output          *)
(* relabelled by O_g is the output itself: the relabelled output for the   *)
(* relabelled observation is exactly the output for x.                     *)
(***************************************************************************)
\* the operators of element g alone
ProjInputOperator(g) == Cat(0 :> input_perms.blocks[g], input_perms.n, 1)
ProjOutputOperator(g) == Cat(0 :> output_perms.blocks[g], output_perms.n, 0)

C4_ProjectionInvariant ==
    (module = EquivariantProjection /\ last.op = "project" /\ ~last.ret.raised) =>
        \A g \in Range0(num_symmetries) :
            /\ MatMulOp(last.ret.symm_input_weight, ProjInputOperator(g))
                   = last.ret.symm_input_weight
            /\ OpMatMul(ProjOutputOperator(g), last.ret.symm_output_weight)
                   = last.ret.symm_output_weight
            /\ OpMatMul(ProjOutputOperator(g), last.ret.symm_output_bias)
                   = last.ret.symm_output_bias

\* project has returned for weights that some element of the group changes
\* in the first layer, in the last layer and in the bias
C4_Witness ==
    /\ module = EquivariantProjection /\ last.op = "project" /\ ~last.ret.raised
    /\ last.ret.symm_input_weight.data # <<>>
    /\ \E g \in Range0(num_symmetries) :
           /\ MatMulOp(last.input_weight, ProjInputOperator(g)) # last.input_weight
           /\ OpMatMul(ProjOutputOperator(g), last.output_weight) # last.output_weight
           /\ OpMatMul(ProjOutputOperator(g), last.output_bias) # last.output_bias

(***************************************************************************)
(* The tensors of a forward call with the step dimension of a one-step     *)
(* call put back, and the (step, sample) positions of the call.            *)
(***************************************************************************)
WithSteps(t, dims) == IF Len(t.shape) = dims - 1 THEN Unsqueeze0(t) ELSE t

ForwardReturned == last.op = "forward" /\ ~last.ret.raised

Positions == Range0(last.a.shape[1]) \X Range0(last.a.shape[2])

Actions == Range0(last.a.shape[3])

LegalAt(p) == {i \in Actions : At(WithSteps(last.legal_move, 3), <<p[1], p[2], i>>) = 1}

QAt(p, i) == At(WithSteps(last.ret.q, 3), <<p[1], p[2], i>>)

GreedyAt(p) == At(WithSteps(last.ret.greedy_action, 2), p)

(***************************************************************************)
(* C9  Greedy action legality: for every (step, sample) of forward with at *)
(* least one legal action, greedy_action is a legal action whose Q is      *)
(* greatest among the legal actions, whatever the Q of the illegal ones;   *)
(* with one legal action it is that action.                                *)
(***************************************************************************)
C9_GreedyIsLegalAndBest ==
    ForwardReturned =>
        \A p \in Positions :
            LegalAt(p) # {} =>
                /\ GreedyAt(p) \in LegalAt(p)
                /\ \A i \in LegalAt(p) : QAt(p, i) <= QAt(p, GreedyAt(p))
                /\ Cardinality(LegalAt(p)) = 1 => LegalAt(p) = {GreedyAt(p)}

\* forward has returned for a call in which some (step, sample) has an
\* illegal action with a Q above that of every legal action, and some
\* (step, sample) has one legal action and every Q negative
C9_Witness ==
    /\ ForwardReturned
    /\ \E p \in Positions :
           /\ LegalAt(p) # {}
           /\ \E j \in Actions \ LegalAt(p) : \A i \in LegalAt(p) : QAt(p, i) < QAt(p, j)
    /\ \E p \in Positions :
           /\ Cardinality(LegalAt(p)) = 1
           /\ \A i \in Actions : QAt(p, i) < 0

(***************************************************************************)
(* C10  Dueling decomposition: for every (step, sample) of forward with at *)
(* least one legal action the Q of the legal actions average to V, the     *)
(* subtracted term being the mean of the advantages of the legal actions.  *)
(***************************************************************************)
C10_LegalQAverageToV ==
    ForwardReturned =>
        \A p \in Positions :
            LegalAt(p) # {} =>
                SumFn([i \in LegalAt(p) |-> QAt(p, i)], LegalAt(p))
                    = Cardinality(LegalAt(p)) * last.ret.q.den * At(last.v, <<p[1], p[2], 0>>)


(***************************************************************************)
(* forward of FFWDNet, PublicLSTMNet, EquivariantLSTMNet and               *)
(* EquivariantPublicLSTMNet.                                               *)
(***************************************************************************)
FFWDNet == "FFWDNet"
PublicLSTMNet == "PublicLSTMNet"

\* the literal of reshape(80, ...) in the forward of the equivariant networks
SeqLen == 80

\* the rows of x along its last dimension, each as the set of its non-zero
\* <<index, entry>> pairs, by row number
RowsOf(x) ==
    LET W == x.shape[Len(x.shape)]
        P == Prod(x.shape) \div W
    IN  Materialize([p \in Range0(P) |->
                        {<<f % W, x.data[f]>> : f \in {g \in DOMAIN x.data : g \div W = p}}],
                    Range0(P))

\* SeqKey(x, hid, t, b) of every (step, sample) of x [S, N, W], by t * N + b
SeqKeys(x, hid) ==
    LET N == x.shape[2]
        rows == RowsOf(x)
        state == Materialize(
                     [b \in Range0(N) |->
                         IF hid.given
                         THEN [l \in Range0(hid.h0.shape[1]) |->
                                  [d \in Range0(hid.h0.shape[3]) |->
                                      <<At(hid.h0, <<l, b, d>>), At(hid.c0, <<l, b, d>>)>>]]
                         ELSE <<>>],
                     Range0(N))
    IN  Materialize([p \in Range0(x.shape[1] * N) |->
                        << [s \in 0 .. (p \div N) |-> rows[s * N + (p % N)]],
                           state[p % N] >>],
                    Range0(x.shape[1] * N))

\* o of the layers for inputs [S, N, .]: self.net and self.lstm on priv_s,
\* or self.publ_net and self.lstm on publ_s multiplied by self.priv_net on
\* priv_s.  nn.Linear wants the module's feature count, nn.LSTM a state
\* [num_layers, N, hid_dim], and the product equal shapes.
LayersO(priv_s, publ_s, hid, public) ==
    LET x == IF public THEN publ_s ELSE priv_s
        H == args.hid_dim
        hsh == <<args.num_lstm_layer, x.shape[2], H>>
    IN  IF priv_s.den = 0 \/ x.den = 0 THEN RaisedT
        ELSE IF Len(priv_s.shape) # 3 \/ Len(x.shape) # 3 THEN RaisedT
        ELSE IF \/ priv_s.shape[3] # priv_in_dim_of(args.in_dim)
                \/ (public /\ publ_s.shape[3] # publ_in_dim_of(args.in_dim))
                \/ (public /\ SubSeq(priv_s.shape, 1, 2) # SubSeq(publ_s.shape, 1, 2))
                \/ (hid.given /\ (hid.h0.den = 0 \/ hid.c0.den = 0))
        THEN RaisedT
        ELSE IF hid.given /\ (hid.h0.shape # hsh \/ hid.c0.shape # hsh) THEN RaisedT
        ELSE LET keys == SeqKeys(x, hid)
                 own == RowsOf(priv_s)
                 osh == <<x.shape[1], x.shape[2], H>>
             IN  Tensor(osh,
                     Materialize(
                         [f \in Range0(Prod(osh)) |->
                             IF public
                             THEN Term(<<"o", f % H, own[f \div H], keys[f \div H]>>)
                             ELSE Term(<<"o", f % H, keys[f \div H]>>)],
                         Range0(Prod(osh))))

NoHead == [raised |-> TRUE, qa |-> RaisedT, greedy_action |-> RaisedT, q |-> RaisedT]

\* q = duel(v, a, legal_move); qa = q.gather(...); the assert on the sizes;
\* legal_q and its argmax over the last of three dimensions: the results for every choice argmax can make
DuelHead(v, a, legal_move, action) ==
    LET q == duel(v, a, legal_move)
        qa == Gather2(q, action)
        legal_q == LegalQ(q, legal_move)
    IN  IF q.den = 0 \/ qa.den = 0 \/ legal_q.den = 0 THEN {NoHead}
        ELSE {[raised |-> FALSE, qa |-> qa, greedy_action |-> g, q |-> q] :
                 g \in ArgMax2(legal_q)}

\* FFWDNet.forward(priv_s, publ_s, legal_move, action, hid): no unsqueeze, no
\* recurrent layer; a and v are what fc_a and fc_v give
forwardFFWD(priv_s, legal_move, action, a, v) ==
    LET H == args.hid_dim
        n == Len(priv_s.shape)
        rows == RowsOf(priv_s)
        osh == [priv_s.shape EXCEPT ![n] = H]
        o == Tensor(osh,
                 Materialize([f \in Range0(Prod(osh)) |-> Term(<<"o", f % H, rows[f \div H]>>)],
                             Range0(Prod(osh))))
    IN  IF \/ n \notin {2, 3}
           \/ priv_s.shape[n] # priv_in_dim_of(args.in_dim)
           \/ a.shape # [priv_s.shape EXCEPT ![n] = args.out_dim]
           \/ v.shape # [priv_s.shape EXCEPT ![n] = 1]
        THEN {NoForward}
        ELSE {IF r.raised THEN NoForward
              ELSE [raised |-> FALSE, qa |-> r.qa, greedy_action |-> r.greedy_action,
                    q |-> r.q, o |-> o] : r \in DuelHead(v, a, legal_move, action)}

\* PublicLSTMNet.forward(priv_s, publ_s, legal_move, action, hid)
forwardPublic(priv_s, publ_s, legal_move, action, hid, a, v) ==
    LET one_step == Len(priv_s.shape) = 2
        ps == IF one_step THEN Unsqueeze0(priv_s) ELSE priv_s
        pb == IF one_step THEN Unsqueeze0(publ_s) ELSE publ_s
        lm == IF one_step THEN Unsqueeze0(legal_move) ELSE legal_move
        ac == IF one_step THEN Unsqueeze0(action) ELSE action
        o == LayersO(ps, pb, hid, TRUE)
    IN  IF Len(priv_s.shape) \notin {2, 3} \/ o.den = 0 THEN {NoForward}
        ELSE IF a.shape # [o.shape EXCEPT ![3] = args.out_dim] THEN {NoForward}
        ELSE {IF r.raised THEN NoForward
              ELSE [raised |-> FALSE,
                    qa |-> IF one_step THEN Squeeze0(r.qa) ELSE r.qa,
                    greedy_action |-> IF one_step THEN Squeeze0(r.greedy_action)
                                      ELSE r.greedy_action,
                    q |-> IF one_step THEN Squeeze0(r.q) ELSE r.q,
                    o |-> IF one_step THEN Squeeze0(o) ELSE o] :
                 r \in DuelHead(v, a, lm, ac)}

\* torch.matmul(t, op) of numbers t [S, n, B, k] with op viewed as [n, k, k],
\* broadcast over S: block g of every step against block g of op
BMatMulN(t, op, n, k) ==
    IF t.den = 0 \/ t.shape = <<>> THEN RaisedT
    ELSE IF Len(t.shape) # 4 \/ t.shape[2] # n \/ t.shape[4] # k \/ Shape(op) # <<n * k, k>>
    THEN RaisedT
    ELSE LET from == Materialize(
                         [c \in Range0(n * k) |->
                             {i \in Range0(k) : Entry(op, (c \div k) * k + i, c % k) = 1}],
                         Range0(n * k))
             B == t.shape[3]
             block(f) == (f \div (k * B)) % n
             to == UNION {{f - (f % k) + (c % k) : c \in Columns(op, block(f) * k + (f % k))} :
                             f \in DOMAIN t.data}
             val(f2) ==
                 LET rows == from[block(f2) * k + (f2 % k)]
                     base == f2 - (f2 % k)
                 IN  SumFn([i \in rows |-> IF base + i \in DOMAIN t.data
                                           THEN t.data[base + i] ELSE 0], rows)
             all == Materialize([f2 \in to |-> val(f2)], to)
             nz == {f2 \in to : all[f2] # 0}
         IN  [shape |-> t.shape, data |-> Materialize([f2 \in nz |-> all[f2]], nz),
              den |-> t.den]

NoEquivariantForward ==
    [raised |-> TRUE, qa |-> RaisedT, greedy_action |-> RaisedT, q |-> RaisedT,
     o |-> RaisedT, x |-> RaisedT, publ_x |-> RaisedT, a |-> RaisedT]

\* EquivariantLSTMNet.forward / EquivariantPublicLSTMNet.forward on the
\* tables ins, pins, outs, rep of a module with n group elements.  a_raw
\* and v_raw are what fc_a and fc_v give for the rows that reach the
\* layers.  Besides the four results the rows that reached the layers (x,
\* publ_x) and the averaged advantages (a) are kept.
EquivariantForwardWith(ins, pins, outs, rep, n, public, priv_s, publ_s, legal_move, action, hid, a_raw, v_raw) ==
    LET one_step == Len(priv_s.shape) = 2
        ps0 == IF one_step THEN Unsqueeze0(priv_s) ELSE priv_s
        pb0 == IF one_step THEN Unsqueeze0(publ_s) ELSE publ_s
        lm == IF one_step THEN Unsqueeze0(legal_move) ELSE legal_move
        ac == IF one_step THEN Unsqueeze0(action) ELSE action
        H == args.hid_dim
        batchsize == ps0.shape[2]
        ps == Reshape(MatMulOp(ps0, ins),
                      <<SeqLen, batchsize * n, priv_in_dim_of(args.in_dim)>>)
        pb == IF public
              THEN Reshape(MatMulOp(pb0, pins),
                           <<SeqLen, batchsize * n, publ_in_dim_of(args.in_dim)>>)
              ELSE pb0
    IN  IF Len(priv_s.shape) \notin {2, 3} \/ ps.den = 0 \/ pb.den = 0
        THEN {NoEquivariantForward}
        ELSE
        LET hh == IF hid.given
                  THEN [given |-> TRUE,
                        h0 |-> Reshape(MatMulOp(hid.h0, rep), <<2, hid.h0.shape[2] * n, H>>),
                        c0 |-> Reshape(MatMulOp(hid.c0, rep), <<2, hid.c0.shape[2] * n, H>>)]
                  ELSE NoHid
            o == LayersO(ps, pb, hh, public)
            a1 == Reshape(a_raw, <<SeqLen, batchsize, n, args.out_dim>>)
            a2 == DivBy(SumDimN(BMatMulN(TTranspose(a1, 1, 2), outs, n, args.out_dim), 1), n)
            v2 == DivBy(SumDimN(Reshape(v_raw, <<SeqLen, batchsize, n, -1>>), 2), n)
            o2 == DivBy(SumDim(Reshape(IF one_step THEN Squeeze0(o) ELSE o,
                                       <<-1, batchsize, n, H>>), 2), n)
        IN  IF \/ o.den = 0
               \/ a_raw.shape # [o.shape EXCEPT ![3] = args.out_dim]
               \/ v_raw.shape # [o.shape EXCEPT ![3] = 1]
               \/ a2.den = 0 \/ v2.den = 0 \/ o2.den = 0
            THEN {NoEquivariantForward}
            ELSE {IF r.raised THEN NoEquivariantForward
                  ELSE [raised |-> FALSE,
                        qa |-> IF one_step THEN Squeeze0(r.qa) ELSE r.qa,
                        greedy_action |-> IF one_step THEN Squeeze0(r.greedy_action)
                                          ELSE r.greedy_action,
                        q |-> IF one_step THEN Squeeze0(r.q) ELSE r.q,
                        o |-> o2,
                        x |-> ps,
                        publ_x |-> IF public THEN pb ELSE RaisedT,
                        a |-> a2] :
                     r \in DuelHead(v2, a2, lm, ac)}

(***************************************************************************)
(* Calls of forward on every network.                                      *)
(***************************************************************************)
Nets == {FFWDNet, LSTMNet, PublicLSTMNet, EquivariantLSTMNet, EquivariantPublicLSTMNet}

\* the constructor arguments of the calls: both layouts, every layer count,
\* the widest recurrent state
CallArgSets(m) == {a \in ArgSets(m) : m \in Nets => a.hid_dim = MaxHidDim}

\* publ_s of priv_s: the private rows without the 125 partner-hand entries
PublOf(priv_s, W) ==
    LET V == W - 125
        n == Len(priv_s.shape)
        on == {f \in DOMAIN priv_s.data : f % W >= 125}
        to == {(f \div W) * V + (f % W) - 125 : f \in on}
    IN  Tensor([priv_s.shape EXCEPT ![n] = V],
               Materialize([f2 \in to |-> priv_s.data[(f2 \div V) * W + (f2 % V) + 125]], to))

\* numbers for the entries of a tensor, by flat index: every fourth entry is
\* a residue of m times the index modulo k, centred, the others are 0
HeadValues(shape, m, k) ==
    LET on == {f \in Range0(Prod(shape)) : f % 4 = 0 /\ ((f * m) % k) # k \div 2}
    IN  Tensor(shape, Materialize([f \in on |-> ((f * m) % k) - (k \div 2)], on))

\* legal_move with one legal action at every position, and with two at the
\* first position of a call of several positions
OneLegal(shape) ==
    LET K == shape[Len(shape)]
        on == {f \in Range0(Prod(shape)) :
                  \/ f % K = (f \div K) % K
                  \/ (Prod(shape) > K /\ f = K - 1)}
    IN  Tensor(shape, Materialize([f \in on |-> 1], on))

\* the shapes forward of module m is called with, <<seq, batch>> with seq = 0
\* for a 2-dim call: one step without and with the sequence dimension, two
\* steps of two samples, and a longer sequence: three steps of one sample,
\* or SeqLen steps of two samples for the networks whose forward names that
\* length
CallShapes(m) ==
    {<<0, 1>>, <<1, 1>>, <<2, 2>>}
        \cup (IF m \in {EquivariantLSTMNet, EquivariantPublicLSTMNet}
              THEN {<<SeqLen, 2>>} ELSE {<<3, 1>>})

\* the shape [seq, batch, .] of the rows that reach the head of module m
HeadShape(m, sh, n, last_dim) ==
    IF m \in {EquivariantLSTMNet, EquivariantPublicLSTMNet}
    THEN <<SeqLen, sh[2] * n, last_dim>>
    ELSE IF m = FFWDNet THEN ShapeFor(sh, <<last_dim>>)
    ELSE <<IF sh[1] = 0 THEN 1 ELSE sh[1], sh[2], last_dim>>

\* forward of module m on the arguments c
forwardOf(m, c) ==
    IF m = FFWDNet THEN forwardFFWD(c.priv_s, c.legal_move, c.action, c.a, c.v)
    ELSE IF m = LSTMNet THEN forward(c.priv_s, c.legal_move, c.action, c.hid, c.a, c.v)
    ELSE IF m = PublicLSTMNet
    THEN forwardPublic(c.priv_s, c.publ_s, c.legal_move, c.action, c.hid, c.a, c.v)
    ELSE EquivariantForwardWith(input_perms, publ_input_perms, output_perms,
                                hidden_cell_repeat, num_symmetries,
                                m = EquivariantPublicLSTMNet,
                                c.priv_s, c.publ_s, c.legal_move, c.action, c.hid, c.a, c.v)


(***************************************************************************)
(* act of EquivariantPublicLSTMNet, and calls one after another.           *)
(***************************************************************************)
\* x = self.publ_net(publ_s); publ_o, (h, c) = self.lstm(x, (hid_h0, hid_c0));
\* priv_o = self.priv_net(priv_s); o = priv_o * publ_o; a = self.fc_a(o), for
\* one time step [1, N, .]: h and c come from the public row and the state,
\* a from the private row as well
PublLayers(priv_s, publ_s, h0, c0, W, V, hid_dim, num_layers, out_dim) ==
    IF priv_s.den = 0 \/ publ_s.den = 0 \/ h0.den = 0 \/ c0.den = 0 THEN NoLayers
    ELSE IF \/ Len(priv_s.shape) # 3 \/ Len(publ_s.shape) # 3
            \/ priv_s.shape[Len(priv_s.shape)] # W
            \/ publ_s.shape[Len(publ_s.shape)] # V
    THEN NoLayers
    ELSE IF \/ SubSeq(priv_s.shape, 1, 2) # SubSeq(publ_s.shape, 1, 2)
            \/ h0.shape # <<num_layers, publ_s.shape[2], hid_dim>>
            \/ c0.shape # <<num_layers, publ_s.shape[2], hid_dim>>
    THEN NoLayers
    ELSE LET N == publ_s.shape[2]
             keys == Materialize([q \in Range0(N) |-> LstmKey(publ_s, h0, c0, q)], Range0(N))
             own == RowsOf(priv_s)
             hsh == <<num_layers, N, hid_dim>>
             cells(name) ==
                 Materialize([f \in Range0(Prod(hsh)) |->
                                 LET idx == Unflat(hsh, f)
                                 IN  Term(<<name, idx[1], idx[3], keys[idx[2]]>>)],
                             Range0(Prod(hsh)))
         IN  [ok |-> TRUE,
              a |-> Tensor(<<1, N, out_dim>>,
                           Materialize([f \in Range0(N * out_dim) |->
                                           Term(<<"a", f % out_dim, own[f \div out_dim],
                                                  keys[f \div out_dim]>>)],
                                       Range0(N * out_dim))),
              h |-> Tensor(hsh, cells("h")),
              c |-> Tensor(hsh, cells("c"))]

\* EquivariantPublicLSTMNet.act(priv_s, publ_s, hid) on the tables ins, pins,
\* outs, rep of a module with n group elements
ActPublWith(ins, pins, outs, rep, n, priv_s, publ_s, hid) ==
    LET W == priv_in_dim_of(args.in_dim)
        V == publ_in_dim_of(args.in_dim)
        H == args.hid_dim
        bsize == hid.h0.shape[1]
        h0f == Flatten12(TTranspose(hid.h0, 0, 1))
        c0f == Flatten12(TTranspose(hid.c0, 0, 1))
        batchsize == priv_s.shape[1]
        hid_h0 == Reshape(MatMulOp(h0f, rep), <<2, h0f.shape[2] * n, H>>)
        hid_c0 == Reshape(MatMulOp(c0f, rep), <<2, c0f.shape[2] * n, H>>)
    IN  IF hid_h0.den = 0 \/ hid_c0.den = 0 THEN NoAct
        ELSE
        LET ps == Unsqueeze0(Reshape(MatMulOp(priv_s, ins), <<batchsize * n, W>>))
            pb == Unsqueeze0(Reshape(MatMulOp(publ_s, pins), <<batchsize * n, V>>))
            y == PublLayers(ps, pb, hid_h0, hid_c0, W, V, H, args.num_lstm_layer, args.out_dim)
            a1 == Reshape(Squeeze0(y.a), <<batchsize, n, args.out_dim>>)
            a2 == DivBy(SumDim(BMatMulOp(TTranspose(a1, 0, 1), outs, n, args.out_dim), 0), n)
            h1 == DivBy(SumDim(Reshape(y.h, <<2, -1, n, H>>), 2), n)
            c1 == DivBy(SumDim(Reshape(y.c, <<2, -1, n, H>>), 2), n)
            interim_hid_shape == <<args.num_lstm_layer, bsize, -1, H>>
            h2 == TTranspose(Reshape(h1, interim_hid_shape), 0, 1)
            c2 == TTranspose(Reshape(c1, interim_hid_shape), 0, 1)
        IN  IF ~y.ok \/ a2.den = 0 \/ h2.den = 0 \/ c2.den = 0 THEN NoAct
            ELSE [raised |-> FALSE, a |-> a2, h0 |-> h2, c0 |-> c2]

\* act of an equivariant network m
actOf(m, priv_s, publ_s, hid) ==
    IF m = EquivariantLSTMNet THEN act(priv_s, hid)
    ELSE ActPublWith(input_perms, publ_input_perms, output_perms, hidden_cell_repeat,
                     num_symmetries, priv_s, publ_s, hid)

\* how many calls a behaviour makes one after another
MaxCalls == 2

\* the calls made so far
Calls == IF last = NoCall THEN 0 ELSE last.n

CallableAgain == pc = "ready" /\ Calls < MaxCalls

\* recurrent state of the shape of t with every entry different
StateLike(t) ==
    LET all == Range0(Prod(t.shape))
    IN  [h0 |-> Tensor(t.shape, Materialize([f \in all |-> f + 1], all)),
         c0 |-> Tensor(t.shape, Materialize([f \in all |-> f + 101], all))]

\* the batches of the calls: the first observation alone, and the batches of
\* MaxBatch observations
CallBatches(W) ==
    {b \in PrivBatches(W) :
        b.shape[1] = MaxBatch \/ \A f \in DOMAIN b.data : f \in {1, 38, 262}}

\* act of an equivariant network: as the first call on a batch and a state;
\* after an act that returned, on the same batch and a state shaped like the
\* returned one; after another call on one observation
ActCall ==
    /\ CallableAgain
    /\ module \in {EquivariantLSTMNet, EquivariantPublicLSTMNet}
    /\ \E c \in IF last = NoCall
                THEN UNION {{[priv_s |-> priv_s, hid |-> hid] :
                                hid \in HidInputs(priv_s.shape[1])} :
                               priv_s \in CallBatches(priv_in_dim_of(args.in_dim))}
                ELSE IF last.op = "act" /\ ~last.ret.raised
                THEN {[priv_s |-> last.priv_s, hid |-> StateLike(last.ret.h0)]}
                ELSE {[priv_s |-> PrivSeq(0, 1, priv_in_dim_of(args.in_dim)),
                       hid |-> StateLike(ZerosT(<<1, args.num_lstm_layer, 1, args.hid_dim>>))]} :
       \E publ_s \in {PublOf(c.priv_s, priv_in_dim_of(args.in_dim))} :
       \E r \in {actOf(module, c.priv_s, publ_s, c.hid)} :
           last' = [op |-> "act", n |-> Calls + 1, priv_s |-> c.priv_s, publ_s |-> publ_s,
                    hid |-> c.hid, ret |-> r]
    /\ UNCHANGED <<pc, module, args, group_type, tables, hidden_cell_repeat>>

\* what the three argument tensors of project hold when it returns: matmul,
\* reshape, sum and / make new tensors, the arguments are only read
ProjectArgumentsWritten(input_weight, output_weight, output_bias) ==
    LET r == project(input_weight, output_weight, output_bias)
    IN  [input_weight |-> r.symm_input_weight, output_weight |-> r.symm_output_weight,
         output_bias |-> r.symm_output_bias]

ProjectArguments(input_weight, output_weight, output_bias) ==
    [input_weight |-> input_weight, output_weight |-> output_weight,
     output_bias |-> output_bias]

\* project of EquivariantProjection: on weights, or, after a project, on the
\* weights it returned
ProjectCall ==
    /\ CallableAgain
    /\ module = EquivariantProjection
    /\ \E c \in IF last # NoCall /\ last.op = "project" /\ ~last.ret.raised
                THEN {[input_weight |-> last.ret.symm_input_weight,
                       output_weight |-> last.ret.symm_output_weight,
                       output_bias |-> last.ret.symm_output_bias]}
                ELSE UNION {{[input_weight |-> input_weight, output_weight |-> output_weight,
                              output_bias |-> output_bias] :
                                output_weight \in OutputWeights(input_weight.shape[1]),
                                output_bias \in OutputBiases} :
                               input_weight \in InputWeights(IF args.sad THEN 713 ELSE 658)} :
       \E r \in {project(c.input_weight, c.output_weight, c.output_bias)} :
           last' = [op |-> "project", n |-> Calls + 1,
                    again |-> (last # NoCall /\ last.op = "project" /\ ~last.ret.raised),
                    input_weight |-> c.input_weight,
                    output_weight |-> c.output_weight, output_bias |-> c.output_bias,
                    after |-> ProjectArguments(c.input_weight, c.output_weight,
                                               c.output_bias),
                    ret |-> r]
    /\ UNCHANGED <<pc, module, args, group_type, tables, hidden_cell_repeat>>

InitCalls ==
    /\ pc = "new"
    /\ module \in Modules \cup Nets
    /\ args \in CallArgSets(module)
    /\ group_type = ""
    /\ symmetries = <<>>
    /\ inv_symmetries = <<>>
    /\ num_symmetries = 0
    /\ input_perms = NoTensor
    /\ publ_input_perms = NoTensor
    /\ output_perms = NoTensor
    /\ hidden_cell_repeat = NoTensor
    /\ last = NoCall

\* forward of any network: as the first call with every shape, as a later
\* call with one step
ForwardCall ==
    /\ CallableAgain
    /\ module \in Nets
    /\ \E sh \in (IF last = NoCall THEN CallShapes(module) ELSE {<<1, 1>>}) :
       \E given \in (IF last = NoCall THEN BOOLEAN ELSE {FALSE}) :
          LET W == priv_in_dim_of(args.in_dim)
              K == args.out_dim
              priv_s == PrivSeq(sh[1], sh[2], W)
              c == [priv_s |-> priv_s,
                    publ_s |-> PublOf(priv_s, W),
                    legal_move |-> OneLegal(ShapeFor(sh, <<K>>)),
                    action |-> TensorOf(ShapeFor(sh, <<>>),
                                  LAMBDA idx : (Flat(ShapeFor(sh, <<>>), idx) + 1) % K),
                    hid |-> IF given THEN [given |-> TRUE] @@ get_h0(sh[2]) ELSE NoHid,
                    a |-> HeadValues(HeadShape(module, sh, num_symmetries, K), 7, 5),
                    v |-> HeadValues(HeadShape(module, sh, num_symmetries, 1), 3, 7)]
          IN  \E r \in forwardOf(module, c) :
                  last' = [op |-> "forward", n |-> Calls + 1, given |-> given, ret |-> r] @@ c
    /\ UNCHANGED <<pc, module, args, group_type, tables, hidden_cell_repeat>>

NextCalls ==
    \/ Construct(ShippedGroupType)
    \/ ForwardCall
    \/ ActCall
    \/ ProjectCall

SpecCalls == InitCalls /\ [][NextCalls]_vars

(***************************************************************************)
(* C11  forward of every network accepts priv_s [seq_len, batch, dim] for  *)
(* every seq_len >= 1 and priv_s [batch, dim] as a single step, and        *)
(* returns qa, greedy_action, q and o without error, shaped like the       *)
(* arguments: without the sequence dimension for a 2-dim call.             *)
(***************************************************************************)
C11_ForwardAccepts ==
    (last.op = "forward" /\ module \in Nets) =>
        /\ ~last.ret.raised
        /\ last.ret.qa.shape = last.action.shape
        /\ last.ret.greedy_action.shape = last.action.shape
        /\ last.ret.q.shape = last.legal_move.shape
        /\ last.ret.o.shape
               = [last.priv_s.shape EXCEPT ![Len(last.priv_s.shape)] = args.hid_dim]

NonFinite == <<0, 0>>

Abs(n) == IF n < 0 THEN -n ELSE n

RECURSIVE Gcd(_, _)
Gcd(a, b) == IF b = 0 THEN a ELSE Gcd(b, a % b)

\* n / d; x / 0 is nan or an infinity
Frac(n, d) ==
    IF d = 0 THEN NonFinite
    ELSE LET g == Gcd(Abs(n), Abs(d))
             s == IF d < 0 THEN -1 ELSE 1
         IN  <<s * (n \div g), s * (d \div g)>>

Whole(n) == <<n, 1>>
IsFinite(x) == x[2] # 0
FAdd(x, y) == IF IsFinite(x) /\ IsFinite(y) THEN Frac(x[1] * y[2] + y[1] * x[2], x[2] * y[2])
              ELSE NonFinite
FNeg(x) == IF IsFinite(x) THEN <<-x[1], x[2]>> ELSE NonFinite
FDiv(x, y) == IF IsFinite(x) /\ IsFinite(y) THEN Frac(x[1] * y[2], x[2] * y[1]) ELSE NonFinite
FLess(x, y) == x[1] * y[2] < y[1] * x[2]

RECURSIVE FSum(_, _)
FSum(f, S) ==
    IF S = {} THEN Whole(0)
    ELSE LET x == CHOOSE y \in S : TRUE IN FAdd(f[x], FSum(f, S \ {x}))

\* the 1e-6 of clamp(min=1e-6)
Epsilon == <<1, 1000000>>

clamp_omitted(x, lo) == x

\* x.clamp(min=lo)
clamp(x, lo) == IF IsFinite(x) /\ FLess(x, lo) THEN lo ELSE x

\* card slots of a hand and classes per slot: pred_1st = nn.Linear(hid_dim, 5 * 3)
HandSlots == 5
SlotClasses == 3

NoLoss == [raised |-> TRUE]

\* cross_entropy(net, lstm_o, target_p, hand_slot_mask, seq_len) with logq
\* what log_softmax gives for net(lstm_o) viewed as target_p: target_p and
\* logq by <<position, slot, class>>, hand_slot_mask by <<position, slot>>,
\* positions of shape [seq, batch, num_player] or [seq, batch], seq_len by
\* sample.  Besides the results (xent, avg_xent, seq_xent; q is the softmax
\* of the same logits) the denominators and the loss of every position
\* before the mean over the players are kept.
cross_entropy(logq, logit_count, target_p, hand_slot_mask, shape, seq_len) ==
    LET pos == Range0(Prod(shape))
        slots == Range0(HandSlots)
        classes == Range0(SlotClasses)
        plogq == [p \in pos |-> [k \in slots |->
                     SumFn([c \in classes |-> target_p[<<p, k, c>>] * logq[<<p, k, c>>]],
                           classes)]]
        den == [p \in pos |->
                   clamp(Whole(SumFn([k \in slots |-> hand_slot_mask[<<p, k>>]], slots)),
                         Epsilon)]
        terms == [p \in pos |->
                     FDiv(FNeg(Whole(SumFn([k \in slots |->
                                               plogq[p][k] * hand_slot_mask[<<p, k>>]],
                                           slots))),
                          den[p])]
        S == shape[1]
        B == shape[2]
        P == IF Len(shape) = 3 THEN shape[3] ELSE 1
        \* xent.mean(2) when xent.dim() == 3
        seq_xent == [q \in Range0(S * B) |->
                        IF Len(shape) = 3
                        THEN FDiv(FSum([p \in Range0(P) |-> terms[q * P + p]], Range0(P)),
                                  Whole(P))
                        ELSE terms[q]]
        xent == [b \in Range0(B) |-> FSum([s \in Range0(S) |-> seq_xent[s * B + b]],
                                          Range0(S))]
        avg_xent == FDiv(FSum([b \in Range0(B) |-> FDiv(xent[b], Whole(seq_len[b]))],
                              Range0(B)),
                         Whole(B))
    IN  IF logit_count # Prod(shape) * HandSlots * SlotClasses THEN NoLoss
        ELSE IF DOMAIN seq_len # Range0(B) THEN NoLoss
        ELSE [raised |-> FALSE, xent |-> xent, avg_xent |-> avg_xent,
              q |-> [f \in DOMAIN logq |-> <<"exp", logq[f]>>],
              seq_xent |-> seq_xent, den |-> den, terms |-> terms]

\* the hand slots a position can have masked in: none, the first, two, all
SlotMasks == <<{}, {0}, {1, 3}, Range0(HandSlots)>>

\* the masks of a call: position p takes SlotMasks[(p + k) % 4 + 1], or every
\* position is masked out entirely (k = 4)
MaskPatterns == Range0(5)

MaskOf(shape, k) ==
    [x \in Range0(Prod(shape)) \X Range0(HandSlots) |->
        IF k < 4 /\ x[2] \in SlotMasks[((x[1] + k) % 4) + 1] THEN 1 ELSE 0]

\* the shapes of the positions of a call: [seq, batch, num_player] and [seq, batch]
LossShapes ==
    {<<s, b, 2>> : s \in 1 .. 2, b \in 1 .. MaxBatch}
        \cup {<<s, b>> : s \in 1 .. 2, b \in 1 .. MaxBatch}

\* pred_loss_1st of any network: cross_entropy on self.pred_1st, for
\* one-hot targets and log-probabilities below zero
PredLossCall ==
    /\ Callable
    /\ module \in Nets
    /\ \E shape \in LossShapes, k \in MaskPatterns, short \in BOOLEAN :
          LET idx == Range0(Prod(shape)) \X Range0(HandSlots) \X Range0(SlotClasses)
              target_p == [x \in idx |-> IF x[3] = (x[1] + x[2]) % SlotClasses THEN 1 ELSE 0]
              logq == [x \in idx |-> -1 - ((7 * x[1] + 3 * x[2] + x[3]) % 5)]
              hand_slot_mask == MaskOf(shape, k)
              seq_len == [b \in Range0(shape[2]) |->
                             IF short /\ b = 0 THEN 1 ELSE shape[1]]
          IN  last' = [op |-> "pred_loss_1st", shape |-> shape,
                       hand_slot_mask |-> hand_slot_mask, seq_len |-> seq_len,
                       ret |-> cross_entropy(logq, Cardinality(idx), target_p,
                                             hand_slot_mask, shape, seq_len)]
    /\ UNCHANGED <<pc, module, args, group_type, tables, hidden_cell_repeat>>

NextLoss ==
    \/ Construct(ShippedGroupType)
    \/ PredLossCall

SpecLoss == InitCalls /\ [][NextLoss]_vars

\* the positions of the last call whose mask is zero in every slot
FullyMasked ==
    {p \in Range0(Prod(last.shape)) :
        \A k \in Range0(HandSlots) : last.hand_slot_mask[<<p, k>>] = 0}

(***************************************************************************)
(* C13  In cross_entropy, for every hand_slot_mask, one that is zero in    *)
(* every slot of a position included, the normalising denominator is       *)
(* never zero (it is at least 1e-6), a position whose mask is entirely     *)
(* zero contributes exactly 0 to the loss of its step, and the losses are  *)
(* finite, for seq_len >= 1.                                               *)
(***************************************************************************)
C13_LossGuard ==
    (last.op = "pred_loss_1st" /\ \A b \in DOMAIN last.seq_len : last.seq_len[b] >= 1) =>
        /\ ~last.ret.raised
        /\ \A p \in Range0(Prod(last.shape)) :
              /\ IsFinite(last.ret.den[p])
              /\ ~FLess(last.ret.den[p], Epsilon)
              /\ IsFinite(last.ret.terms[p])
        /\ \A p \in FullyMasked : last.ret.terms[p] = Whole(0)
        /\ \A q \in DOMAIN last.ret.seq_xent : IsFinite(last.ret.seq_xent[q])
        /\ \A b \in DOMAIN last.ret.xent : IsFinite(last.ret.xent[b])
        /\ IsFinite(last.ret.avg_xent)

\* a call with two players where one player of a step is masked out entirely
\* and the other is not, so that the loss of the step is the other's alone
C13_Witness ==
    /\ last.op = "pred_loss_1st" /\ ~last.ret.raised
    /\ Len(last.shape) = 3
    /\ 0 \in FullyMasked /\ 1 \notin FullyMasked
    /\ last.ret.den[0] = Epsilon
    /\ last.ret.seq_xent[0] = FDiv(last.ret.terms[1], Whole(2))
    /\ last.ret.seq_xent[0] # Whole(0)

(***************************************************************************)
(* The group copies of a sample, taken from the group table itself.        *)
(***************************************************************************)
\* sample b of the batch x [B, W] under the operator perm, as one row
\* [1, 1, W]: entry j is x[b, perm[j]]
CopyOf(x, b, perm) ==
    LET W == x.shape[2]
        on == {j \in Range0(W) : (b * W + perm[j]) \in DOMAIN x.data}
    IN  Tensor(<<1, 1, W>>, Materialize([j \in on |-> x.data[b * W + perm[j]]], on))

\* the state of sample b of t [bsize, num_layer, num_player, dim], as one
\* row [num_layer, 1, dim]
StateOf(t, b) ==
    LET H == t.shape[4]
        all == Range0(t.shape[2] * H)
    IN  Tensor(<<t.shape[2], 1, H>>,
               Materialize([f \in all |-> At(t, <<b \div t.shape[3], f \div H,
                                                 b % t.shape[3], f % H>>)], all))

\* the input operators of symmetries[g], private and public
InputPermsOf(g) ==
    IF module = EquivariantPublicLSTMNet
    THEN PublInputPerms(priv_in_dim_of(args.in_dim), publ_in_dim_of(args.in_dim),
                        symmetries[g])
    ELSE [priv |-> PrivInputPerm(priv_in_dim_of(args.in_dim), symmetries[g]),
          publ |-> <<>>]

\* the entry at flat index f
Val(t, f) == IF f \in DOMAIN t.data THEN t.data[f] ELSE 0

\* act: the advantage j of sample b is the n-th part of the sum, over the
\* group elements g, of what the layers give for the copy of sample b under
\* the input operator of symmetries[g], at the action that the output
\* operator of inv_symmetries[g] takes to j
ActAligned ==
    LET W == priv_in_dim_of(args.in_dim)
        V == publ_in_dim_of(args.in_dim)
        K == args.out_dim
        n == num_symmetries
        B == last.priv_s.shape[1]
        ins == Materialize([g \in Range0(n) |-> InputPermsOf(g)], Range0(n))
        outs == Materialize([g \in Range0(n) |-> NetOutputPerm(K, inv_symmetries[g])],
                            Range0(n))
        y == Materialize(
                 [q \in Range0(B * n) |->
                     IF module = EquivariantPublicLSTMNet
                     THEN PublLayers(CopyOf(last.priv_s, q \div n, ins[q % n].priv),
                                     CopyOf(last.publ_s, q \div n, ins[q % n].publ),
                                     StateOf(last.hid.h0, q \div n),
                                     StateOf(last.hid.c0, q \div n),
                                     W, V, args.hid_dim, args.num_lstm_layer, K).a
                     ELSE NetLstmFcA(CopyOf(last.priv_s, q \div n, ins[q % n].priv),
                                     StateOf(last.hid.h0, q \div n),
                                     StateOf(last.hid.c0, q \div n),
                                     W, args.hid_dim, args.num_lstm_layer, K).a],
                 Range0(B * n))
        src(g, j) == CHOOSE i \in Range0(K) : outs[g][i] = j
    IN  /\ last.ret.a.shape = <<B, K>>
        /\ last.ret.a.den = n
        /\ \A b \in Range0(B), j \in Range0(K) :
              last.ret.a.data[b * K + j]
                  = LCSum([g \in Range0(n) |-> y[b * n + g].data[src(g, j)]], Range0(n))

\* the entries of x [S, B, W] copied under the operators perms: row r of x
\* under operator g is row r * n + g, and its entry j is x[r, perms[g][j]]
CopiesOf(x, perms, n) ==
    LET W == x.shape[3]
        cols == {f % W : f \in DOMAIN x.data}
        back == Materialize([p \in Range0(n) \X cols |->
                                CHOOSE j \in Range0(W) : perms[p[1]][j] = p[2]],
                            Range0(n) \X cols)
    IN  {<<((f \div W) * n + g) * W + back[<<g, f % W>>], x.data[f]>> :
            f \in DOMAIN x.data, g \in Range0(n)}

EntriesOf(t) == {<<f, t.data[f]>> : f \in DOMAIN t.data}

\* forward: the rows that reach the layers are the copies of the samples in
\* the same order, and the advantage j of sample b at step t is the n-th
\* part of the sum over g of the advantage of row b * n + g at the action
\* that the output operator of inv_symmetries[g] takes to j
ForwardAligned ==
    LET K == args.out_dim
        n == num_symmetries
        ins == Materialize([g \in Range0(n) |-> InputPermsOf(g)], Range0(n))
        outs == Materialize([g \in Range0(n) |-> NetOutputPerm(K, inv_symmetries[g])],
                            Range0(n))
        src == Materialize([p \in Range0(n) \X Range0(K) |->
                               CHOOSE i \in Range0(K) : outs[p[1]][i] = p[2]],
                           Range0(n) \X Range0(K))
        rows == Range0(last.priv_s.shape[1] * last.priv_s.shape[2])
    IN  /\ EntriesOf(last.ret.x)
               = CopiesOf(last.priv_s, [g \in Range0(n) |-> ins[g].priv], n)
        /\ module = EquivariantPublicLSTMNet =>
               EntriesOf(last.ret.publ_x)
                   = CopiesOf(last.publ_s, [g \in Range0(n) |-> ins[g].publ], n)
        /\ last.ret.a.den = n
        /\ \A r \in rows, j \in Range0(K) :
              Val(last.ret.a, r * K + j)
                  = SumFn([g \in Range0(n) |-> Val(last.a, (r * n + g) * K + src[<<g, j>>])],
                          Range0(n))

(***************************************************************************)
(* C14  For every index k of the group table inv_symmetries[k] is the      *)
(* inverse permutation of symmetries[k], composed in either order; and in  *)
(* act and forward the group copy of sample b made by the input operator   *)
(* of symmetries[k] is corrected by the output operator of                 *)
(* inv_symmetries[k] for the same k and averaged with the other group      *)
(* copies of the same sample b only.                                       *)
(***************************************************************************)
C14_InverseAndAlignment ==
    /\ (pc = "ready" /\ module \in EquivariantNets) =>
           \A k \in Range0(num_symmetries) :
               /\ Compose(inv_symmetries[k], symmetries[k]) = IdentityPerm
               /\ Compose(symmetries[k], inv_symmetries[k]) = IdentityPerm
    /\ (JustBuilt /\ module \in EquivariantNets) =>
           \A gt \in SupportedGroupTypes :
               \A k \in DOMAIN GroupTable(gt) :
                   /\ Compose(argsort(GroupTable(gt))[k], GroupTable(gt)[k]) = IdentityPerm
                   /\ Compose(GroupTable(gt)[k], argsort(GroupTable(gt))[k]) = IdentityPerm
    /\ (last.op = "act" /\ ~last.ret.raised) => ActAligned
    /\ (last.op = "forward" /\ module \in EquivariantNets /\ ~last.ret.raised) =>
           ForwardAligned

\* an act on two different samples with a state that is not zero, whose
\* advantages differ between the samples and between the colour actions
C14_Witness ==
    /\ last.op = "act" /\ ~last.ret.raised
    /\ last.priv_s.shape[1] = 2
    /\ CopyOf(last.priv_s, 0, eye(last.priv_s.shape[2]))
           # CopyOf(last.priv_s, 1, eye(last.priv_s.shape[2]))
    /\ last.hid.h0.data # <<>>
    /\ \E k \in Range0(num_symmetries) : symmetries[k] # inv_symmetries[k]
    /\ last.ret.a.data[10] # last.ret.a.data[11]
    /\ last.ret.a.data[10] # last.ret.a.data[args.out_dim + 10]

(***************************************************************************)
(* The output correction of the two modules on one advantage vector.       *)
(***************************************************************************)
\* advantage vectors of width 21: every entry different, the colour actions
\* alone, and a vector with equal and absent entries
AdvantageVectors ==
    { Tensor(<<OutDim>>, [i \in Range0(OutDim) |-> i + 1]),
      Tensor(<<OutDim>>, [i \in 10 .. 14 |-> 3 * (i - 9)]),
      Tensor(<<OutDim>>, (3 :> 2) @@ (10 :> 5) @@ (12 :> 5) @@ (13 :> -1) @@ (20 :> 4)) }

InitOutputs ==
    /\ pc = "new"
    /\ module = EquivariantProjection
    /\ args \in {a \in ArgSets(EquivariantProjection) : ~a.sad}
    /\ group_type = ""
    /\ symmetries = <<>>
    /\ inv_symmetries = <<>>
    /\ num_symmetries = 0
    /\ input_perms = NoTensor
    /\ publ_input_perms = NoTensor
    /\ output_perms = NoTensor
    /\ hidden_cell_repeat = NoTensor
    /\ last \in {[op |-> "inputs", sigma |-> SymmetricTable[k], y |-> y] :
                    k \in DOMAIN SymmetricTable, y \in AdvantageVectors}

\* y corrected as EquivariantProjection does it, torch.matmul(perm, y) with
\* perm built from sigma, and as EquivariantLSTMNet does it,
\* torch.matmul(y, perm) with perm built from argsort(sigma)
CorrectOutputs ==
    /\ last.op = "inputs"
    /\ LET proj_perm == Cat(0 :> ProjOutputPerm(last.sigma), OutDim, 0)
           net_perm == Cat(0 :> NetOutputPerm(OutDim, argsort(0 :> last.sigma)[0]), OutDim, 0)
       IN  last' = [op |-> "outputs", sigma |-> last.sigma, y |-> last.y,
                    by_proj |-> OpMatMul(proj_perm, last.y),
                    by_net |-> Reshape(BMatMulN(Reshape(last.y, <<1, 1, 1, OutDim>>),
                                                net_perm, 1, OutDim),
                                       <<OutDim>>)]
    /\ UNCHANGED <<pc, module, args, group_type, tables, hidden_cell_repeat>>

SpecOutputs == InitOutputs /\ [][CorrectOutputs]_vars

(***************************************************************************)
(* C15  The two output-side conventions agree: for every permutation       *)
(* sigma and every advantage vector y of width 21, the operator built      *)
(* from sigma applied from the left (operator . y), as in the              *)
(* weight-projection module, and the operator built from the inverse of    *)
(* sigma applied from the right (y . operator), as in the equivariant      *)
(* network, give the same vector.                                          *)
(***************************************************************************)
C15_ConventionsAgree ==
    last.op = "outputs" => (~(last.by_proj.den = 0) /\ last.by_proj = last.by_net)

\* a permutation that is not its own inverse, on a vector whose colour
\* entries all differ, moved by the correction
C15_Witness ==
    /\ last.op = "outputs"
    /\ argsort(0 :> last.sigma)[0] # last.sigma
    /\ Cardinality({Val(last.y, i) : i \in 10 .. 14}) = 5
    /\ last.by_proj # last.y
    /\ last.by_proj.den = 1

\* t and u hold the same numbers: equal shapes and equal fractions
SameNumbers(t, u) ==
    /\ t.den # 0 /\ u.den # 0
    /\ t.shape = u.shape
    /\ \A f \in DOMAIN t.data \cup DOMAIN u.data : Val(t, f) * u.den = Val(u, f) * t.den

(***************************************************************************)
(* C16  The weight projection is idempotent: project applied to the        *)
(* weights a project returned returns the same weights,                    *)
(* project(project(W_in, W_out, b_out)) = project(W_in, W_out, b_out), the *)
(* average being taken over all 120 group elements, the identity           *)
(* included, with divisor num_symmetries = 120.                            *)
(***************************************************************************)
C16_ProjectIdempotent ==
    (last.op = "project" /\ last.again) =>
        /\ ~last.ret.raised
        /\ num_symmetries = 120
        /\ SameNumbers(last.ret.symm_input_weight, last.input_weight)
        /\ SameNumbers(last.ret.symm_output_weight, last.output_weight)
        /\ SameNumbers(last.ret.symm_output_bias, last.output_bias)

\* a second project on averaged weights that are not zero, with input
\* weights that are fractions of 120 and equal output rows of the colours
C16_Witness ==
    /\ last.op = "project" /\ last.again /\ ~last.ret.raised
    /\ last.input_weight.den = 120
    /\ last.ret.symm_input_weight.den = 120 * 120
    /\ Val(last.output_weight, 10 * last.output_weight.shape[2]) # 0
    /\ Val(last.output_weight, 10 * last.output_weight.shape[2])
           = Val(last.output_weight, 11 * last.output_weight.shape[2])
    /\ \E f \in DOMAIN last.input_weight.data : last.input_weight.data[f] % 120 # 0
    /\ last.output_bias.data # <<>>

\* what the layers give for the copy of sample b under the input operator of
\* symmetries[g], with sample b's own state
LayersOfCopy(b, g) ==
    LET W == priv_in_dim_of(args.in_dim)
        ins == InputPermsOf(g)
    IN  IF module = EquivariantPublicLSTMNet
        THEN PublLayers(CopyOf(last.priv_s, b, ins.priv), CopyOf(last.publ_s, b, ins.publ),
                        StateOf(last.hid.h0, b), StateOf(last.hid.c0, b),
                        W, publ_in_dim_of(args.in_dim), args.hid_dim, args.num_lstm_layer,
                        args.out_dim)
        ELSE NetLstmFcA(CopyOf(last.priv_s, b, ins.priv),
                        StateOf(last.hid.h0, b), StateOf(last.hid.c0, b),
                        W, args.hid_dim, args.num_lstm_layer, args.out_dim)

(***************************************************************************)
(* C17  In act of the equivariant networks, whenever it returns, every    *)
(* group copy g of sample b is run from sample b's supplied hidden and     *)
(* cell state, tiled and never permuted, and the hidden and cell state     *)
(* returned for sample b is the arithmetic mean, over the group copies of  *)
(* that same sample, of the states the layers produced for them.           *)
(***************************************************************************)
C17_HiddenTiledAndAveraged ==
    (last.op = "act" /\ ~last.ret.raised) =>
        LET n == num_symmetries
            H == args.hid_dim
            sh == last.hid.h0.shape
            N == sh[1] * sh[3]
            y == Materialize([q \in Range0(N * n) |-> LayersOfCopy(q \div n, q % n)],
                             Range0(N * n))
            mean(name, idx) ==
                LCSum([g \in Range0(n) |->
                          y[(idx[1] * sh[3] + idx[3]) * n + g][name].data[idx[2] * H + idx[4]]],
                      Range0(n))
        IN  /\ last.ret.h0.shape = sh /\ last.ret.c0.shape = sh
            /\ last.ret.h0.den = n /\ last.ret.c0.den = n
            /\ \A f \in Range0(Prod(sh)) :
                  /\ last.ret.h0.data[f] = mean("h", Unflat(sh, f))
                  /\ last.ret.c0.data[f] = mean("c", Unflat(sh, f))

\* an act on two samples whose supplied states are not zero and differ, with
\* different states returned for the two samples
C17_Witness ==
    /\ last.op = "act" /\ ~last.ret.raised
    /\ last.priv_s.shape[1] = 2
    /\ StateOf(last.hid.h0, 0).data # StateOf(last.hid.h0, 1).data
    /\ StateOf(last.hid.c0, 0).data # StateOf(last.hid.h0, 0).data
    /\ args.hid_dim >= 2
    /\ last.ret.h0.data[0] # last.ret.h0.data[Prod(last.ret.h0.shape) - 1]
    /\ last.ret.h0.data[0] # last.ret.c0.data[0]

(***************************************************************************)
(* C18  act preserves the shape of the hidden state: for                   *)
(* EquivariantLSTMNet and EquivariantPublicLSTMNet built with any          *)
(* num_lstm_layer >= 1, and any sequence of act calls from a state of      *)
(* shape [batch, num_lstm_layer, num_player, hid_dim], every call returns, *)
(* with a hidden and cell state of that same shape.                        *)
(***************************************************************************)
C18_ActKeepsStateShape ==
    (last.op = "act"
        /\ last.hid.h0.shape[2] = args.num_lstm_layer
        /\ last.hid.h0.shape[4] = args.hid_dim
        /\ last.hid.h0.shape[1] * last.hid.h0.shape[3] = last.priv_s.shape[1]
        /\ last.hid.c0.shape = last.hid.h0.shape) =>
        /\ ~last.ret.raised
        /\ last.ret.h0.shape = last.hid.h0.shape
        /\ last.ret.c0.shape = last.hid.c0.shape

(***************************************************************************)
(* C19  In EquivariantPublicLSTMNet with the narrow layout (private width  *)
(* 658, public width 533) the public input operator of every group element *)
(* is the private input operator without its first 125 rows and columns,   *)
(* the partner-hand field: perm_publ[j][k] = perm_priv[j + 125][k + 125]   *)
(* for all j, k in 0 .. 532.                                               *)
(***************************************************************************)
C19_PublicIsPrivateShifted ==
    (pc = "ready" /\ module = EquivariantPublicLSTMNet /\ args.in_dim.is_int) =>
        /\ input_perms.n = 658 /\ publ_input_perms.n = 533
        /\ DOMAIN Blocks(publ_input_perms) = Range0(num_symmetries)
        /\ DOMAIN Blocks(input_perms) = Range0(num_symmetries)
        /\ \A g \in Range0(num_symmetries) :
              /\ DOMAIN Blocks(publ_input_perms)[g] = Range0(533)
              /\ \A j \in Range0(533) :
                    Blocks(publ_input_perms)[g][j] = Blocks(input_perms)[g][j + 125] - 125

\* the narrow public network built on the symmetric group, with an element
\* that moves public rows
C19_Witness ==
    /\ pc = "ready" /\ module = EquivariantPublicLSTMNet /\ args.in_dim.is_int
    /\ num_symmetries = 120
    /\ \E j \in Range0(533) : Blocks(publ_input_perms)[119][j] # j
    /\ \E j \in Range0(125) : Blocks(input_perms)[119][j] # j

\* the hint-colour actions: rows 10 .. 14 of the last layer
HintColourRows == 10 .. 14

\* row r of the returned tensor u [21, K] or [21] is the mean of the
\* hint-colour rows of the passed tensor t if r is one of them, and row r of
\* t otherwise, as fractions
RowsAveraged(t, u) ==
    LET K == Prod(Tail(t.shape))
    IN  /\ u.den # 0 /\ u.shape = t.shape
        /\ \A r \in Range0(t.shape[1]), k \in Range0(K) :
              IF r \in HintColourRows
              THEN Val(u, r * K + k) * 5 * t.den
                       = SumFn([i \in HintColourRows |-> Val(t, i * K + k)], HintColourRows)
                             * u.den
              ELSE Val(u, r * K + k) * t.den = Val(t, r * K + k) * u.den

(***************************************************************************)
(* C20  After EquivariantProjection.project the five hint-colour rows      *)
(* (10 .. 14) of the returned output weight are equal to each other, each  *)
(* the mean of the five rows 10 .. 14 passed in, and so are the five       *)
(* hint-colour entries of the returned bias; rows and entries outside      *)
(* 10 .. 14 are returned unchanged.                                        *)
(***************************************************************************)
C20_HintColourRowsAveraged ==
    (module = EquivariantProjection /\ last.op = "project") =>
        /\ ~last.ret.raised
        /\ RowsAveraged(last.output_weight, last.ret.symm_output_weight)
        /\ RowsAveraged(last.output_bias, last.ret.symm_output_bias)
        /\ \A r \in HintColourRows :
              /\ \A k \in Range0(last.output_weight.shape[2]) :
                    Val(last.ret.symm_output_weight, r * last.output_weight.shape[2] + k)
                        = Val(last.ret.symm_output_weight,
                              10 * last.output_weight.shape[2] + k)
              /\ Val(last.ret.symm_output_bias, r) = Val(last.ret.symm_output_bias, 10)

\* project has returned for a last layer whose hint-colour rows differ from
\* each other, in the weight and in the bias, and whose mean is not zero
C20_Witness ==
    /\ module = EquivariantProjection /\ last.op = "project" /\ ~last.ret.raised
    /\ Cardinality({Val(last.output_weight, r * last.output_weight.shape[2]) :
                       r \in HintColourRows}) = 5
    /\ Cardinality({Val(last.output_bias, r) : r \in HintColourRows}) = 5
    /\ Val(last.ret.symm_output_weight, 10 * last.output_weight.shape[2]) # 0
    /\ Val(last.ret.symm_output_bias, 10) # 0
    /\ Val(last.ret.symm_output_weight, 0) # 0
====
